---- MODULE Spec2Model ----
(***************************************************************************)
(* Robot layout planner: the scene store (sceneStore.js), the always-      *)
(* mounted drag surface (DragPlane.jsx), the entity and rotation-grip      *)
(* pointer handlers, the floor-pick plane and the sidebar handlers that    *)
(* call the store.                                                         *)
(*                                                                         *)
(* Units.  Lengths are integers in millimetres (1 m = 1000), headings are  *)
(* integers in degrees, a track position is an integer in percent (the     *)
(* slider's value before it is divided by 100).  Headings handed to the    *)
(* trigonometric functions are multiples of 90 degrees, where cos and sin  *)
(* are -1, 0 or 1; the 1e-16 residue of Math.cos(Math.PI / 2) disappears   *)
(* in the store's rounding to two decimals and is not modelled.            *)
(*                                                                         *)
(* null (and an absent field) is the empty tuple; a present value of an    *)
(* optional field is a tuple: an id is <<"r", n>> for `r-n` and <<"o", n>> *)
(* for `o-n`, a parentOffset is <<dx, dy, dRot>>, a trackPosition is       *)
(* <<percent>>.                                                            *)
(***************************************************************************)
EXTENDS Integers, Sequences, FiniteSets, TLC

VARIABLES
    deployedRobots,     \* store: sequence of robot records
    nextRobotId,        \* store: counter for robot ids
    sceneObjects,       \* store: sequence of scene object records
    nextObjectId,       \* store: counter for object ids
    selectedRobotId,    \* store: id or Null
    selectedObjectId,   \* store: id or Null
    interactionMode,    \* store: "orbit" | "place" | "drag" | "rotate"
    floorClickCoords,   \* store: <<x, y>> or Null
    snapToGridEnabled,  \* store: BOOLEAN
    isDragging,         \* DragPlane: useRef(false)
    dragOffset,         \* DragPlane: useRef({x: 0, y: 0}), as <<x, y>>
    grabbedId           \* history: the entity the running gesture grabbed

storeVars == <<deployedRobots, nextRobotId, sceneObjects, nextObjectId,
               selectedRobotId, selectedObjectId, interactionMode,
               floorClickCoords, snapToGridEnabled>>
planeVars == <<isDragging, dragOffset>>
vars == <<deployedRobots, nextRobotId, sceneObjects, nextObjectId,
          selectedRobotId, selectedObjectId, interactionMode,
          floorClickCoords, snapToGridEnabled, isDragging, dragOffset,
          grabbedId>>

----------------------------------------------------------------------------
(* Values *)

Null == <<>>

RobotIdOf(n) == <<"r", n>>

ObjectIdOf(n) == <<"o", n>>

\* JavaScript's % : the result has the sign of the dividend.
JsRem(a, n) == IF a >= 0 THEN a % n ELSE -((-a) % n)

\* ((d % 360) + 360) % 360
NormalizeDeg(d) == JsRem(JsRem(d, 360) + 360, 360)

\* Math.cos(d * Math.PI / 180), d a multiple of 90
CosDeg(d) ==
    LET n == NormalizeDeg(d) IN
    CASE n = 0 -> 1 [] n = 90 -> 0 [] n = 180 -> -1 [] n = 270 -> 0

\* Math.sin(d * Math.PI / 180), d a multiple of 90
SinDeg(d) ==
    LET n == NormalizeDeg(d) IN
    CASE n = 0 -> 0 [] n = 90 -> 1 [] n = 180 -> 0 [] n = 270 -> -1

\* Math.round(v * 100) / 100 on millimetres: to the nearest 10, halves up.
Round2(v) == ((v + 5) \div 10) * 10

\* Array.prototype.map
MapSeq(seq, F(_)) == [i \in 1..Len(seq) |-> F(seq[i])]

\* Array.prototype.find by id: the index of the first match, 0 for undefined.
FindIndex(seq, id) ==
    IF \E i \in 1..Len(seq) : seq[i].id = id
    THEN CHOOSE i \in 1..Len(seq) :
            seq[i].id = id /\ \A j \in 1..(i - 1) : seq[j].id # id
    ELSE 0

HasId(seq, id) == FindIndex(seq, id) # 0

IdsOf(seq) == {seq[i].id : i \in 1..Len(seq)}

\* the carriage plate above the track body: trackHeight + 0.012
CarriagePlate == 12

IsTrack(o) == o.shape = "linear_track"

\* fault injection: a composition that forgets the parent's heading
WorldOf_Unrotated(position, rotation, offset) ==
    <<position[1] + offset[1], position[2] + offset[2],
      NormalizeDeg(rotation + offset[3])>>

\* a parent's placement (position, rotation) composed with an offset
\* <<dx, dy, dRot>>: world x, world y, heading
WorldOf(position, rotation, offset) ==
    <<position[1] + offset[1] * CosDeg(rotation) - offset[2] * SinDeg(rotation),
      position[2] + offset[1] * SinDeg(rotation) + offset[2] * CosDeg(rotation),
      NormalizeDeg(rotation + offset[3])>>

----------------------------------------------------------------------------
(* Entities as the builders make them *)

\* deploymentUtils.buildRobotInstances: no parent fields (undefined = Null)
NewRobot(n, position, rotation, mountType) ==
    [id |-> RobotIdOf(n), position |-> position, rotation |-> rotation,
     mountType |-> mountType, opacity |-> 100,
     parentObjectId |-> Null, parentOffset |-> Null, trackPosition |-> Null]

\* objectUtils.buildObjectInstances
NewObject(n, shape, dimensions, position, rotation, mountType) ==
    [id |-> ObjectIdOf(n), shape |-> shape, dimensions |-> dimensions,
     position |-> position, rotation |-> rotation, mountType |-> mountType,
     opacity |-> 100]

----------------------------------------------------------------------------
(* The store's actions (sceneStore.js).  Each is one synchronous set(...):  *)
(* it names every store variable; the keys the code does not return are     *)
(* UNCHANGED.                                                               *)

addRobots(robots) ==
    /\ deployedRobots' = deployedRobots \o robots
    /\ nextRobotId' = nextRobotId + Len(robots)
    /\ UNCHANGED <<sceneObjects, nextObjectId, selectedRobotId,
                   selectedObjectId, interactionMode, floorClickCoords,
                   snapToGridEnabled>>

\* fault injection: a removeRobot that leaves the selection as it is
removeRobot_KeepSelection(id) ==
    /\ deployedRobots' = SelectSeq(deployedRobots, LAMBDA r : r.id # id)
    /\ UNCHANGED <<nextRobotId, sceneObjects, nextObjectId, selectedRobotId,
                   selectedObjectId, interactionMode, floorClickCoords,
                   snapToGridEnabled>>

\* fault injection: a removeRobot that always drops the robot selection
removeRobot_Deselect(id) ==
    /\ deployedRobots' = SelectSeq(deployedRobots, LAMBDA r : r.id # id)
    /\ selectedRobotId' = Null
    /\ UNCHANGED <<nextRobotId, sceneObjects, nextObjectId, selectedObjectId,
                   interactionMode, floorClickCoords, snapToGridEnabled>>

removeRobot(id) ==
    /\ deployedRobots' = SelectSeq(deployedRobots, LAMBDA r : r.id # id)
    /\ selectedRobotId' = IF selectedRobotId = id THEN Null ELSE selectedRobotId
    /\ UNCHANGED <<nextRobotId, sceneObjects, nextObjectId, selectedObjectId,
                   interactionMode, floorClickCoords, snapToGridEnabled>>

updateRobotTransform(id, position, rotation) ==
    /\ deployedRobots' =
         MapSeq(deployedRobots,
                LAMBDA r : IF r.id = id
                           THEN [r EXCEPT !.position = position,
                                          !.rotation = rotation]
                           ELSE r)
    /\ UNCHANGED <<nextRobotId, sceneObjects, nextObjectId, selectedRobotId,
                   selectedObjectId, interactionMode, floorClickCoords,
                   snapToGridEnabled>>

\* style is {opacity: v}; the colour override is not modelled
updateRobotStyle(id, opacity) ==
    /\ deployedRobots' =
         MapSeq(deployedRobots,
                LAMBDA r : IF r.id = id THEN [r EXCEPT !.opacity = opacity]
                           ELSE r)
    /\ UNCHANGED <<nextRobotId, sceneObjects, nextObjectId, selectedRobotId,
                   selectedObjectId, interactionMode, floorClickCoords,
                   snapToGridEnabled>>

\* fault injection: a clone that keeps the source's binding
duplicateRobot_Bound(robotId) ==
    LET i == FindIndex(deployedRobots, robotId) IN
    IF i = 0
    THEN UNCHANGED storeVars
    ELSE LET source == deployedRobots[i]
             newId == RobotIdOf(nextRobotId)
             clone == [source EXCEPT
                         !.id = newId,
                         !.position = <<source.position[1] + 1000,
                                        source.position[2] + 1000,
                                        source.position[3]>>]
         IN /\ deployedRobots' = Append(deployedRobots, clone)
            /\ nextRobotId' = nextRobotId + 1
            /\ selectedRobotId' = newId
            /\ selectedObjectId' = Null
            /\ UNCHANGED <<sceneObjects, nextObjectId, interactionMode,
                           floorClickCoords, snapToGridEnabled>>

duplicateRobot(robotId) ==
    LET i == FindIndex(deployedRobots, robotId) IN
    IF i = 0
    THEN UNCHANGED storeVars
    ELSE LET source == deployedRobots[i]
             newId == RobotIdOf(nextRobotId)
             clone == [source EXCEPT
                         !.id = newId,
                         !.position = <<source.position[1] + 1000,
                                        source.position[2] + 1000,
                                        source.position[3]>>,
                         !.parentObjectId = Null,
                         !.parentOffset = Null,
                         !.trackPosition = Null]
         IN /\ deployedRobots' = Append(deployedRobots, clone)
            /\ nextRobotId' = nextRobotId + 1
            /\ selectedRobotId' = newId
            /\ selectedObjectId' = Null
            /\ UNCHANGED <<sceneObjects, nextObjectId, interactionMode,
                           floorClickCoords, snapToGridEnabled>>

clearRobots ==
    /\ deployedRobots' = <<>>
    /\ nextRobotId' = 1
    /\ selectedRobotId' = Null
    /\ interactionMode' = "orbit"
    /\ UNCHANGED <<sceneObjects, nextObjectId, selectedObjectId,
                   floorClickCoords, snapToGridEnabled>>

setInteractionMode(mode) ==
    /\ interactionMode' = mode
    /\ UNCHANGED <<deployedRobots, nextRobotId, sceneObjects, nextObjectId,
                   selectedRobotId, selectedObjectId, floorClickCoords,
                   snapToGridEnabled>>

setFloorClickCoords(coords) ==
    /\ floorClickCoords' = coords
    /\ UNCHANGED <<deployedRobots, nextRobotId, sceneObjects, nextObjectId,
                   selectedRobotId, selectedObjectId, interactionMode,
                   snapToGridEnabled>>

setSnapToGridEnabled(val) ==
    /\ snapToGridEnabled' = val
    /\ UNCHANGED <<deployedRobots, nextRobotId, sceneObjects, nextObjectId,
                   selectedRobotId, selectedObjectId, interactionMode,
                   floorClickCoords>>

\* fault injection: a setSelectedRobotId that keeps the object selection
setSelectedRobotId_Keep(id) ==
    /\ selectedRobotId' = id
    /\ UNCHANGED <<deployedRobots, nextRobotId, sceneObjects, nextObjectId,
                   selectedObjectId, interactionMode, floorClickCoords,
                   snapToGridEnabled>>

setSelectedRobotId(id) ==
    /\ selectedRobotId' = id
    /\ selectedObjectId' = Null
    /\ UNCHANGED <<deployedRobots, nextRobotId, sceneObjects, nextObjectId,
                   interactionMode, floorClickCoords, snapToGridEnabled>>

addObjects(objects) ==
    /\ sceneObjects' = sceneObjects \o objects
    /\ nextObjectId' = nextObjectId + Len(objects)
    /\ UNCHANGED <<deployedRobots, nextRobotId, selectedRobotId,
                   selectedObjectId, interactionMode, floorClickCoords,
                   snapToGridEnabled>>

\* fault injection: an unbinding that forgets the parent's id
Unbound_KeepParent(r) ==
    [r EXCEPT !.parentOffset = Null, !.trackPosition = Null]

\* { ...r, parentObjectId: null, parentOffset: null, trackPosition: null }
Unbound(r) ==
    [r EXCEPT !.parentObjectId = Null, !.parentOffset = Null,
              !.trackPosition = Null]

\* fault injection: a removal that leaves the object's robots bound
removeObject_KeepBindings(id) ==
    /\ sceneObjects' = SelectSeq(sceneObjects, LAMBDA o : o.id # id)
    /\ selectedObjectId' =
         IF selectedObjectId = id THEN Null ELSE selectedObjectId
    /\ UNCHANGED <<deployedRobots, nextRobotId, nextObjectId, selectedRobotId,
                   interactionMode, floorClickCoords, snapToGridEnabled>>

\* fault injection: a removal that deletes the robots the object carries
removeObject_Cascade(id) ==
    /\ sceneObjects' = SelectSeq(sceneObjects, LAMBDA o : o.id # id)
    /\ selectedObjectId' =
         IF selectedObjectId = id THEN Null ELSE selectedObjectId
    /\ deployedRobots' =
         SelectSeq(deployedRobots, LAMBDA r : r.parentObjectId # id)
    /\ UNCHANGED <<nextRobotId, nextObjectId, selectedRobotId,
                   interactionMode, floorClickCoords, snapToGridEnabled>>

removeObject(id) ==
    /\ sceneObjects' = SelectSeq(sceneObjects, LAMBDA o : o.id # id)
    /\ selectedObjectId' =
         IF selectedObjectId = id THEN Null ELSE selectedObjectId
    /\ deployedRobots' =
         MapSeq(deployedRobots,
                LAMBDA r : IF r.parentObjectId = id THEN Unbound(r) ELSE r)
    /\ UNCHANGED <<nextRobotId, nextObjectId, selectedRobotId,
                   interactionMode, floorClickCoords, snapToGridEnabled>>

\* fault injection: a cascade that leaves every robot where it stood
CascadeRobot_Stale(r, id, position, rotation) == r

\* the cascade of updateObjectTransform on one robot
CascadeRobot(r, id, position, rotation) ==
    IF r.parentObjectId # id \/ r.parentOffset = Null
    THEN r
    ELSE LET w == WorldOf(position, rotation, r.parentOffset) IN
         [r EXCEPT !.position = <<Round2(w[1]), Round2(w[2]), r.position[3]>>,
                   !.rotation = w[3]]

updateObjectTransform(id, position, rotation) ==
    /\ sceneObjects' =
         MapSeq(sceneObjects,
                LAMBDA o : IF o.id = id
                           THEN [o EXCEPT !.position = position,
                                          !.rotation = rotation]
                           ELSE o)
    /\ deployedRobots' =
         MapSeq(deployedRobots,
                LAMBDA r : CascadeRobot(r, id, position, rotation))
    /\ UNCHANGED <<nextRobotId, nextObjectId, selectedRobotId,
                   selectedObjectId, interactionMode, floorClickCoords,
                   snapToGridEnabled>>

\* dimensions is the one-key object {[key]: value} the row commits
updateObjectDimensions(id, key, value) ==
    /\ sceneObjects' =
         MapSeq(sceneObjects,
                LAMBDA o : IF o.id = id
                           THEN [o EXCEPT !.dimensions[key] = value]
                           ELSE o)
    /\ UNCHANGED <<deployedRobots, nextRobotId, nextObjectId, selectedRobotId,
                   selectedObjectId, interactionMode, floorClickCoords,
                   snapToGridEnabled>>

updateObjectStyle(id, opacity) ==
    /\ sceneObjects' =
         MapSeq(sceneObjects,
                LAMBDA o : IF o.id = id THEN [o EXCEPT !.opacity = opacity]
                           ELSE o)
    /\ UNCHANGED <<deployedRobots, nextRobotId, nextObjectId, selectedRobotId,
                   selectedObjectId, interactionMode, floorClickCoords,
                   snapToGridEnabled>>

duplicateObject(objectId) ==
    LET i == FindIndex(sceneObjects, objectId) IN
    IF i = 0
    THEN UNCHANGED storeVars
    ELSE LET source == sceneObjects[i]
             newId == ObjectIdOf(nextObjectId)
             clone == [source EXCEPT
                         !.id = newId,
                         !.position = <<source.position[1] + 1000,
                                        source.position[2] + 1000,
                                        source.position[3]>>]
         IN /\ sceneObjects' = Append(sceneObjects, clone)
            /\ nextObjectId' = nextObjectId + 1
            /\ selectedObjectId' = newId
            /\ selectedRobotId' = Null
            /\ UNCHANGED <<deployedRobots, nextRobotId, interactionMode,
                           floorClickCoords, snapToGridEnabled>>

clearObjects ==
    /\ sceneObjects' = <<>>
    /\ nextObjectId' = 1
    /\ selectedObjectId' = Null
    /\ deployedRobots' =
         MapSeq(deployedRobots,
                LAMBDA r : IF r.parentObjectId # Null THEN Unbound(r) ELSE r)
    /\ UNCHANGED <<nextRobotId, selectedRobotId, interactionMode,
                   floorClickCoords, snapToGridEnabled>>

setSelectedObjectId(id) ==
    /\ selectedObjectId' = id
    /\ selectedRobotId' = Null
    /\ UNCHANGED <<deployedRobots, nextRobotId, sceneObjects, nextObjectId,
                   interactionMode, floorClickCoords, snapToGridEnabled>>

\* data is a scene file: [deployedRobots, sceneObjects, nextRobotId,
\* nextObjectId, snapToGridEnabled]
restoreScene(data) ==
    /\ deployedRobots' = data.deployedRobots
    /\ sceneObjects' = data.sceneObjects
    /\ nextRobotId' = data.nextRobotId
    /\ nextObjectId' = data.nextObjectId
    /\ selectedRobotId' = Null
    /\ selectedObjectId' = Null
    /\ interactionMode' = "orbit"
    /\ snapToGridEnabled' = data.snapToGridEnabled
    /\ UNCHANGED floorClickCoords

\* the robot bindRobotToObject writes when the object is a linear_track
BoundToTrack(r, object) ==
    LET w == WorldOf(object.position, object.rotation, <<0, 0, 0>>)
        carriageSurfaceZ ==
            object.position[3] + object.dimensions.height + CarriagePlate
    IN [r EXCEPT !.parentObjectId = object.id,
                 !.parentOffset = <<0, 0, 0>>,
                 !.trackPosition = <<50>>,
                 !.position = <<Round2(w[1]), Round2(w[2]), carriageSurfaceZ>>,
                 !.rotation = JsRem(object.rotation, 360),
                 !.mountType = "platform"]

\* fault injection: a bind to an ordinary object that leaves the robot's
\* track position as it was
BoundToObject_KeepTrack(r, object) ==
    LET gdx == r.position[1] - object.position[1]
        gdy == r.position[2] - object.position[2]
        cosR == CosDeg(-object.rotation)
        sinR == SinDeg(-object.rotation)
    IN [r EXCEPT !.parentObjectId = object.id,
                 !.parentOffset =
                     <<gdx * cosR - gdy * sinR, gdx * sinR + gdy * cosR,
                       NormalizeDeg(r.rotation - object.rotation)>>]

\* the robot bindRobotToObject writes for any other object
BoundToObject(r, object) ==
    LET gdx == r.position[1] - object.position[1]
        gdy == r.position[2] - object.position[2]
        cosR == CosDeg(-object.rotation)
        sinR == SinDeg(-object.rotation)
        localDx == gdx * cosR - gdy * sinR
        localDy == gdx * sinR + gdy * cosR
        dRot == NormalizeDeg(r.rotation - object.rotation)
    IN [r EXCEPT !.parentObjectId = object.id,
                 !.parentOffset = <<localDx, localDy, dRot>>,
                 !.trackPosition = Null]

\* fault injection: a bindRobotToObject that does not look the object up
bindRobotToObject_Unchecked(robotId, objectId) ==
    IF ~HasId(deployedRobots, robotId)
    THEN UNCHANGED storeVars
    ELSE /\ deployedRobots' =
              MapSeq(deployedRobots,
                     LAMBDA r : IF r.id = robotId
                                THEN [r EXCEPT !.parentObjectId = objectId,
                                               !.parentOffset = <<0, 0, 0>>,
                                               !.trackPosition = Null]
                                ELSE r)
         /\ UNCHANGED <<nextRobotId, sceneObjects, nextObjectId,
                        selectedRobotId, selectedObjectId, interactionMode,
                        floorClickCoords, snapToGridEnabled>>

bindRobotToObject(robotId, objectId) ==
    LET i == FindIndex(deployedRobots, robotId)
        j == FindIndex(sceneObjects, objectId)
    IN
    IF i = 0 \/ j = 0
    THEN UNCHANGED storeVars
    ELSE LET object == sceneObjects[j] IN
         /\ deployedRobots' =
              MapSeq(deployedRobots,
                     LAMBDA r : IF r.id = robotId
                                THEN IF IsTrack(object)
                                     THEN BoundToTrack(r, object)
                                     ELSE BoundToObject(r, object)
                                ELSE r)
         /\ UNCHANGED <<nextRobotId, sceneObjects, nextObjectId,
                        selectedRobotId, selectedObjectId, interactionMode,
                        floorClickCoords, snapToGridEnabled>>

\* fault injection: an unbind that detaches every robot
unbindRobot_All(robotId) ==
    /\ deployedRobots' = MapSeq(deployedRobots, Unbound)
    /\ UNCHANGED <<nextRobotId, sceneObjects, nextObjectId, selectedRobotId,
                   selectedObjectId, interactionMode, floorClickCoords,
                   snapToGridEnabled>>

unbindRobot(robotId) ==
    /\ deployedRobots' =
         MapSeq(deployedRobots,
                LAMBDA r : IF r.id = robotId THEN Unbound(r) ELSE r)
    /\ UNCHANGED <<nextRobotId, sceneObjects, nextObjectId, selectedRobotId,
                   selectedObjectId, interactionMode, floorClickCoords,
                   snapToGridEnabled>>

\* fault injection: a track position laid out along the world's x axis,
\* whatever the track's heading
OnTrackAt_Unrotated(r, object, pos) ==
    LET localDx == ((pos - 50) * object.dimensions.length) \div 100
        localDy == IF r.parentOffset = Null THEN 0 ELSE r.parentOffset[2]
        dRot == IF r.parentOffset = Null THEN 0 ELSE r.parentOffset[3]
    IN [r EXCEPT !.trackPosition = <<pos>>,
                 !.parentOffset = <<localDx, localDy, dRot>>,
                 !.position = <<Round2(object.position[1] + localDx),
                                Round2(object.position[2] + localDy),
                                r.position[3]>>,
                 !.rotation = JsRem(object.rotation + dRot, 360)]

\* fault injection: a track position measured from the track's end
OnTrackAt_FromEnd(r, object, pos) ==
    LET localDx == (pos * object.dimensions.length) \div 100
    IN [r EXCEPT !.trackPosition = <<pos>>,
                 !.parentOffset = <<localDx, 0, 0>>,
                 !.position = <<Round2(object.position[1] + localDx),
                                Round2(object.position[2]), r.position[3]>>,
                 !.rotation = JsRem(object.rotation, 360)]

\* the robot setRobotTrackPosition writes; pos is in percent
OnTrackAt(r, object, pos) ==
    LET localDx == ((pos - 50) * object.dimensions.length) \div 100
        localDy == IF r.parentOffset = Null THEN 0 ELSE r.parentOffset[2]
        dRot == IF r.parentOffset = Null THEN 0 ELSE r.parentOffset[3]
        cosR == CosDeg(object.rotation)
        sinR == SinDeg(object.rotation)
        worldX == object.position[1] + localDx * cosR - localDy * sinR
        worldY == object.position[2] + localDx * sinR + localDy * cosR
    IN [r EXCEPT !.trackPosition = <<pos>>,
                 !.parentOffset = <<localDx, localDy, dRot>>,
                 !.position = <<Round2(worldX), Round2(worldY), r.position[3]>>,
                 !.rotation = JsRem(object.rotation + dRot, 360)]

setRobotTrackPosition(robotId, pos) ==
    LET i == FindIndex(deployedRobots, robotId)
        j == IF i = 0 THEN 0
             ELSE FindIndex(sceneObjects, deployedRobots[i].parentObjectId)
    IN
    IF i = 0 \/ j = 0 \/ ~IsTrack(sceneObjects[IF j = 0 THEN 1 ELSE j])
    THEN UNCHANGED storeVars
    ELSE /\ deployedRobots' =
              MapSeq(deployedRobots,
                     LAMBDA r : IF r.id = robotId
                                THEN OnTrackAt(r, sceneObjects[j], pos)
                                ELSE r)
         /\ UNCHANGED <<nextRobotId, sceneObjects, nextObjectId,
                        selectedRobotId, selectedObjectId, interactionMode,
                        floorClickCoords, snapToGridEnabled>>

----------------------------------------------------------------------------
(* Bounds of the model *)

\* the general specification: robots r-1..r-MaxRobots and objects
\* o-1..o-MaxObjects; a deploy or a duplicate that would number an entity
\* beyond them is not explored
MaxRobots == 1

MaxObjects == 1

\* the same for the specification of the store's calls
StoreMaxRobots == 2

StoreMaxObjects == 2

\* the specification of the ids: entities r-1..r-IdMax and o-1..o-IdMax
IdMax == 3

\* the explored floor: 0 <= x, y <= MaxCoord millimetres for every entity
MaxCoord == 1000

RobotIds(n) == {RobotIdOf(k) : k \in 1..n}

ObjectIds(n) == {ObjectIdOf(k) : k \in 1..n}

InFloor(position) ==
    /\ 0 <= position[1] /\ position[1] <= MaxCoord
    /\ 0 <= position[2] /\ position[2] <= MaxCoord

\* the states explored: every entity on the explored floor
InBounds ==
    /\ \A i \in 1..Len(deployedRobots) : InFloor(deployedRobots[i].position)
    /\ \A i \in 1..Len(sceneObjects) : InFloor(sceneObjects[i].position)

----------------------------------------------------------------------------
(* Pure helpers of the pointer handlers *)

\* fault injection: a rounding to the next multiple above, also from a
\* multiple
RoundTo_Next(v, g) == (v \div g + 1) * g

\* fault injection: no rounding
RoundTo_Exact(v, g) == v

\* Math.round(v / g) * g
RoundTo(v, g) == ((2 * v + g) \div (2 * g)) * g

\* fault injection: a snap that leaves the point where it is
snapToGrid_Off(x, y, gridSize) == <<x, y>>

\* deploymentUtils.snapToGrid
snapToGrid(x, y, gridSize) == <<RoundTo(x, gridSize), RoundTo(y, gridSize)>>

\* config.deployment.snapGridSize: 0.5 m
SNAP_SIZE == 500

\* the vectors Atan2Deg is tabulated for: along an axis, along a diagonal,
\* or with one component twice the other
Atan2Defined(dx, dz) ==
    \/ dx = 0 \/ dz = 0
    \/ dx = dz \/ dx = -dz
    \/ 2 * dx = dz \/ 2 * dx = -dz
    \/ dx = 2 * dz \/ dx = -2 * dz

\* Math.atan2(dx, dz) * (180 / Math.PI), to the nearest degree: exact along
\* the axes and the diagonals; 26.565 and 63.435 degrees (one component
\* twice the other) are given as 27 and 63, and no multiple of 15 plus 7.5,
\* where Math.round(angleDeg / 15) changes, lies between either pair
Atan2Deg(dx, dz) ==
    CASE dx = 0 /\ dz >= 0 -> 0
      [] dx = 0 /\ dz < 0 -> 180
      [] dx > 0 /\ dz = 0 -> 90
      [] dx < 0 /\ dz = 0 -> -90
      [] dx > 0 /\ dz = dx -> 45
      [] dx > 0 /\ dz = -dx -> 135
      [] dx < 0 /\ dz = -dx -> -45
      [] dx < 0 /\ dz = dx -> -135
      [] dx > 0 /\ dz = 2 * dx -> 27
      [] dx > 0 /\ dz = -2 * dx -> 153
      [] dx < 0 /\ dz = -2 * dx -> -27
      [] dx < 0 /\ dz = 2 * dx -> -153
      [] dz > 0 /\ dx = 2 * dz -> 63
      [] dz < 0 /\ dx = -2 * dz -> 117
      [] dz > 0 /\ dx = -2 * dz -> -63
      [] dz < 0 /\ dx = 2 * dz -> -117

\* fault injection: a render frame that keeps the floor frame's order
threePos_Unswapped(position) == position

\* RobotInstance / SceneObjectInstance threePos: floor (x, y, height) to the
\* render frame (x, height up, y)
threePos(position) == <<position[1], position[3], position[2]>>

\* the floor coordinates the pointer handlers read off a render-frame
\* point: (event.point.x, event.point.z)
toFloor(point) == <<point[1], point[3]>>

\* DragPlane.resolveSelected on a given selection: which list, and the index
\* of the entity in it (0 when find returns undefined or nothing is selected)
resolveSelected(selR, selO) ==
    IF selR # Null
    THEN [index |-> FindIndex(deployedRobots, selR), isRobot |-> TRUE]
    ELSE IF selO # Null
         THEN [index |-> FindIndex(sceneObjects, selO), isRobot |-> FALSE]
         ELSE [index |-> 0, isRobot |-> FALSE]

EntityOf(res) ==
    IF res.isRobot THEN deployedRobots[res.index] ELSE sceneObjects[res.index]

\* fault injection: a press that records no offset, so that the entity's
\* origin goes to the cursor
DragPlane_handlePointerDown_Centred(mode, selR, selO, point) ==
    IF (mode # "drag" /\ mode # "rotate") \/ (selR = Null /\ selO = Null)
    THEN <<isDragging, dragOffset>>
    ELSE IF mode = "drag" /\ resolveSelected(selR, selO).index = 0
         THEN <<isDragging, dragOffset>>
         ELSE <<TRUE, <<0, 0>>>>

\* DragPlane.handlePointerDown, run on the mode and selection the handlers
\* nearer to the camera have just written: the new <<isDragging, dragOffset>>
DragPlane_handlePointerDown(mode, selR, selO, point) ==
    IF (mode # "drag" /\ mode # "rotate") \/ (selR = Null /\ selO = Null)
    THEN <<isDragging, dragOffset>>
    ELSE IF mode = "drag"
         THEN LET res == resolveSelected(selR, selO) IN
              IF res.index = 0
              THEN <<isDragging, dragOffset>>
              ELSE <<TRUE, <<EntityOf(res).position[1] - point[1],
                             EntityOf(res).position[2] - point[2]>>>>
         ELSE <<TRUE, dragOffset>>

\* the condition under which handlePointerDown reaches isDragging = true
GestureStarts(mode, selR, selO) ==
    /\ mode = "drag" \/ mode = "rotate"
    /\ selR # Null \/ selO # Null
    /\ mode = "drag" => resolveSelected(selR, selO).index # 0

SelectedId(selR, selO) == IF selR # Null THEN selR ELSE selO

\* history: the gesture's entity is the selection at the accepted press
Grab(mode, selR, selO) ==
    grabbedId' = IF GestureStarts(mode, selR, selO)
                 THEN SelectedId(selR, selO)
                 ELSE grabbedId

----------------------------------------------------------------------------
(* Pointer events *)

\* fault injection: a robot that takes the press in every mode
PointerDownOnRobot_AnyMode(id, point) ==
    /\ id \in IdsOf(deployedRobots)
    /\ LET plane == DragPlane_handlePointerDown("drag", id, Null, point)
       IN /\ selectedRobotId' = id
          /\ selectedObjectId' = Null
          /\ interactionMode' = "drag"
          /\ isDragging' = plane[1]
          /\ dragOffset' = plane[2]
          /\ Grab("drag", id, Null)
    /\ UNCHANGED <<deployedRobots, nextRobotId, sceneObjects, nextObjectId,
                   floorClickCoords, snapToGridEnabled>>

\* RobotInstance.handlePointerDown, then DragPlane.handlePointerDown on the
\* same event (no stopPropagation)
PointerDownOnRobot(id, point) ==
    /\ id \in IdsOf(deployedRobots)
    /\ LET accepted == interactionMode = "orbit"
           selR == IF accepted THEN id ELSE selectedRobotId
           selO == IF accepted THEN Null ELSE selectedObjectId
           mode == IF accepted THEN "drag" ELSE interactionMode
           plane == DragPlane_handlePointerDown(mode, selR, selO, point)
       IN /\ selectedRobotId' = selR
          /\ selectedObjectId' = selO
          /\ interactionMode' = mode
          /\ isDragging' = plane[1]
          /\ dragOffset' = plane[2]
          /\ Grab(mode, selR, selO)
    /\ UNCHANGED <<deployedRobots, nextRobotId, sceneObjects, nextObjectId,
                   floorClickCoords, snapToGridEnabled>>

\* SceneObjectInstance.handlePointerDown, then DragPlane.handlePointerDown
PointerDownOnObject(id, point) ==
    /\ id \in IdsOf(sceneObjects)
    /\ LET accepted == interactionMode = "orbit"
           selR == IF accepted THEN Null ELSE selectedRobotId
           selO == IF accepted THEN id ELSE selectedObjectId
           mode == IF accepted THEN "drag" ELSE interactionMode
           plane == DragPlane_handlePointerDown(mode, selR, selO, point)
       IN /\ selectedRobotId' = selR
          /\ selectedObjectId' = selO
          /\ interactionMode' = mode
          /\ isDragging' = plane[1]
          /\ dragOffset' = plane[2]
          /\ Grab(mode, selR, selO)
    /\ UNCHANGED <<deployedRobots, nextRobotId, sceneObjects, nextObjectId,
                   floorClickCoords, snapToGridEnabled>>

\* the height the useFrame callback of DragPlane keeps the plane at, less
\* the constant DRAG_Y: the selected entity's, the floor's without one
PlaneHeight ==
    LET res == resolveSelected(selectedRobotId, selectedObjectId) IN
    IF res.index = 0 THEN 0 ELSE EntityOf(res).position[3]

\* A press on a robot at a point of it that lies under the drag plane (the
\* robot stands lower than the selected entity): the ray meets the plane
\* first, so DragPlane.handlePointerDown runs on the store as it is; when it
\* accepts the press it stops the propagation, otherwise
\* RobotInstance.handlePointerDown runs after it.
PointerDownUnderPlaneOnRobot(id, point) ==
    /\ id \in IdsOf(deployedRobots)
    /\ PlaneHeight > deployedRobots[FindIndex(deployedRobots, id)].position[3]
    /\ LET plane == DragPlane_handlePointerDown(interactionMode,
                        selectedRobotId, selectedObjectId, point)
           accepted == interactionMode = "orbit"
       IN /\ isDragging' = plane[1]
          /\ dragOffset' = plane[2]
          /\ Grab(interactionMode, selectedRobotId, selectedObjectId)
          /\ selectedRobotId' = IF accepted THEN id ELSE selectedRobotId
          /\ selectedObjectId' = IF accepted THEN Null ELSE selectedObjectId
          /\ interactionMode' = IF accepted THEN "drag" ELSE interactionMode
    /\ UNCHANGED <<deployedRobots, nextRobotId, sceneObjects, nextObjectId,
                   floorClickCoords, snapToGridEnabled>>

\* the same for a scene object that lies under the drag plane
PointerDownUnderPlaneOnObject(id, point) ==
    /\ id \in IdsOf(sceneObjects)
    /\ PlaneHeight > sceneObjects[FindIndex(sceneObjects, id)].position[3]
    /\ LET plane == DragPlane_handlePointerDown(interactionMode,
                        selectedRobotId, selectedObjectId, point)
           accepted == interactionMode = "orbit"
       IN /\ isDragging' = plane[1]
          /\ dragOffset' = plane[2]
          /\ Grab(interactionMode, selectedRobotId, selectedObjectId)
          /\ selectedRobotId' = IF accepted THEN Null ELSE selectedRobotId
          /\ selectedObjectId' = IF accepted THEN id ELSE selectedObjectId
          /\ interactionMode' = IF accepted THEN "drag" ELSE interactionMode
    /\ UNCHANGED <<deployedRobots, nextRobotId, sceneObjects, nextObjectId,
                   floorClickCoords, snapToGridEnabled>>

\* RotationHandle.handleGripPointerDown, then DragPlane.handlePointerDown.
\* The grip is rendered only while the selected entity exists.
PointerDownOnGrip(point) ==
    /\ resolveSelected(selectedRobotId, selectedObjectId).index # 0
    /\ LET plane == DragPlane_handlePointerDown("rotate", selectedRobotId,
                                                selectedObjectId, point)
       IN /\ interactionMode' = "rotate"
          /\ isDragging' = plane[1]
          /\ dragOffset' = plane[2]
          /\ Grab("rotate", selectedRobotId, selectedObjectId)
    /\ UNCHANGED <<deployedRobots, nextRobotId, sceneObjects, nextObjectId,
                   selectedRobotId, selectedObjectId, floorClickCoords,
                   snapToGridEnabled>>

\* a press on empty floor: DragPlane.handlePointerDown alone
PointerDownOnFloor(point) ==
    /\ LET plane == DragPlane_handlePointerDown(interactionMode,
                        selectedRobotId, selectedObjectId, point)
       IN /\ isDragging' = plane[1]
          /\ dragOffset' = plane[2]
          /\ Grab(interactionMode, selectedRobotId, selectedObjectId)
    /\ UNCHANGED storeVars

\* fault injection: a transform that puts the entity on the floor
updateTransform_Grounded(isRobot, position, rotation) ==
    IF isRobot
    THEN updateRobotTransform(selectedRobotId,
                              <<position[1], position[2], 0>>, rotation)
    ELSE updateObjectTransform(selectedObjectId,
                               <<position[1], position[2], 0>>, rotation)

\* the updateTransform closure of handlePointerMove
updateTransform(isRobot, position, rotation) ==
    IF isRobot
    THEN updateRobotTransform(selectedRobotId, position, rotation)
    ELSE updateObjectTransform(selectedObjectId, position, rotation)

\* DragPlane.handlePointerMove
PointerMove(point) ==
    /\ LET res == resolveSelected(selectedRobotId, selectedObjectId) IN
       IF ~isDragging \/ res.index = 0
       THEN UNCHANGED storeVars
       ELSE LET entity == EntityOf(res) IN
            IF interactionMode = "drag"
            THEN LET raw == <<point[1] + dragOffset[1],
                              point[2] + dragOffset[2]>>
                     new == IF snapToGridEnabled
                            THEN snapToGrid(raw[1], raw[2], SNAP_SIZE)
                            ELSE raw
                 IN updateTransform(res.isRobot,
                                    <<new[1], new[2], entity.position[3]>>,
                                    entity.rotation)
            ELSE IF interactionMode = "rotate"
                 THEN LET dx == point[1] - entity.position[1]
                          dz == point[2] - entity.position[2]
                      IN /\ Atan2Defined(dx, dz)
                         /\ updateTransform(res.isRobot, entity.position,
                              NormalizeDeg(RoundTo(Atan2Deg(dx, dz), 15)))
                 ELSE UNCHANGED storeVars
    /\ UNCHANGED <<planeVars, grabbedId>>

\* the mode the store holds when handlePointerMove returns: no path of the
\* handler calls setInteractionMode
PointerMoveMode == interactionMode

\* the mode the store holds when handlePointerUp returns
PointerUpMode == IF ~isDragging THEN interactionMode ELSE "orbit"

\* fault injection: a release that does not ask whether a gesture runs
PointerUp_Unguarded ==
    /\ isDragging' = FALSE
    /\ setInteractionMode("orbit")
    /\ grabbedId' = Null
    /\ UNCHANGED dragOffset

\* fault injection: a release that also clears the selection
PointerUp_Deselect ==
    IF ~isDragging
    THEN UNCHANGED vars
    ELSE /\ isDragging' = FALSE
         /\ interactionMode' = "orbit"
         /\ selectedRobotId' = Null
         /\ selectedObjectId' = Null
         /\ grabbedId' = Null
         /\ UNCHANGED <<deployedRobots, nextRobotId, sceneObjects,
                        nextObjectId, floorClickCoords, snapToGridEnabled,
                        dragOffset>>

\* DragPlane.handlePointerUp
PointerUp ==
    IF ~isDragging
    THEN UNCHANGED vars
    ELSE /\ isDragging' = FALSE
         /\ setInteractionMode(PointerUpMode)
         /\ grabbedId' = Null
         /\ UNCHANGED dragOffset

\* fault injection: a pick plane that is mounted in every mode
FloorClickPlane_handleClick_AnyMode(point) ==
    /\ floorClickCoords' = <<RoundTo(point[1], 100), RoundTo(point[2], 100)>>
    /\ interactionMode' = "orbit"
    /\ UNCHANGED <<deployedRobots, nextRobotId, sceneObjects, nextObjectId,
                   selectedRobotId, selectedObjectId, snapToGridEnabled,
                   planeVars, grabbedId>>

\* FloorClickPlane.handleClick; the plane is mounted only in 'place' mode.
\* Math.round(x * 10) / 10 is a rounding to 100 mm.
FloorClickPlane_handleClick(point) ==
    /\ interactionMode = "place"
    /\ floorClickCoords' = <<RoundTo(point[1], 100), RoundTo(point[2], 100)>>
    /\ interactionMode' = "orbit"
    /\ UNCHANGED <<deployedRobots, nextRobotId, sceneObjects, nextObjectId,
                   selectedRobotId, selectedObjectId, snapToGridEnabled,
                   planeVars, grabbedId>>

\* the effect of ControlPanel / EquipmentPanel that consumes floorClickCoords
ConsumeFloorClick ==
    /\ floorClickCoords # Null
    /\ setFloorClickCoords(Null)
    /\ UNCHANGED <<planeVars, grabbedId>>

\* fault injection: a floor click that deselects in every mode
handleFloorClick_AnyMode ==
    /\ IF selectedRobotId # Null
       THEN setSelectedRobotId(Null)
       ELSE IF selectedObjectId # Null
            THEN setSelectedObjectId(Null)
            ELSE UNCHANGED storeVars
    /\ UNCHANGED <<planeVars, grabbedId>>

\* FloorGrid.handleFloorClick: a click on empty floor
handleFloorClick ==
    /\ IF interactionMode # "orbit"
       THEN UNCHANGED storeVars
       ELSE IF selectedRobotId # Null
            THEN setSelectedRobotId(Null)
            ELSE IF selectedObjectId # Null
                 THEN setSelectedObjectId(Null)
                 ELSE UNCHANGED storeVars
    /\ UNCHANGED <<planeVars, grabbedId>>

----------------------------------------------------------------------------
(* Sidebar handlers and direct calls of the store's actions *)

\* Math.ceil(Math.sqrt(count))
CeilSqrt(count) == CHOOSE c \in 0..count : c * c >= count /\ (c = 0 \/ (c - 1) * (c - 1) < count)

\* deploymentUtils.calculateGridPositions: the offsets of a centred grid;
\* spacing is approxHeight * scale * gridSpacingMultiplier of the model
\* deployed
calculateGridPositions(count, spacing) ==
    LET cols == CeilSqrt(count)
        rows == (count + cols - 1) \div cols
        totalWidth == (cols - 1) * spacing
        totalDepth == (rows - 1) * spacing
    IN [k \in 1..count |->
          <<((k - 1) % cols) * spacing - totalWidth \div 2,
            ((k - 1) \div cols) * spacing - totalDepth \div 2>>]

\* fault injection: a batch whose robots all bear the first id
buildRobotInstances_OneId(count, origin, rotationDeg, startId, spacing) ==
    [k \in 1..count |->
       NewRobot(startId, origin, rotationDeg, "floor")]

\* deploymentUtils.buildRobotInstances for a model of the catalogue
buildRobotInstances(count, origin, rotationDeg, startId, spacing) ==
    LET offsets == calculateGridPositions(count, spacing) IN
    [k \in 1..count |->
       NewRobot(startId + k - 1,
                <<Round2(origin[1] + offsets[k][1]),
                  Round2(origin[2] + offsets[k][2]), origin[3]>>,
                rotationDeg, "floor")]

\* objectUtils.buildObjectInstances for an item of the catalogue: the
\* items of a batch stand 1 m apart along x
buildObjectInstances(shape, dimensions, count, origin, rotationDeg, startId) ==
    [k \in 1..count |->
       NewObject(startId + k - 1, shape, dimensions,
                 <<origin[1] + (k - 1) * 1000, origin[2], origin[3]>>,
                 rotationDeg, "floor")]

\* ControlPanel.handleDeploy: a batch of `count` robots numbered from the
\* store's nextRobotId
DeployRobots(count, origin, rotationDeg, spacing) ==
    /\ addRobots(buildRobotInstances(count, origin, rotationDeg, nextRobotId,
                                     spacing))
    /\ UNCHANGED <<planeVars, grabbedId>>

\* EquipmentPanel.handleDeploy: a batch of `count` objects
DeployObjects(shape, dimensions, count, origin, rotationDeg) ==
    /\ addObjects(buildObjectInstances(shape, dimensions, count, origin,
                                       rotationDeg, nextObjectId))
    /\ UNCHANGED <<planeVars, grabbedId>>

\* ControlPanel.handleDeploy with count = 1 (one grid cell, at the origin the
\* form holds); the form's fields are inputs
DeployRobot(origin, rotationDeg) ==
    /\ addRobots(<<NewRobot(nextRobotId,
                            <<Round2(origin[1]), Round2(origin[2]), origin[3]>>,
                            rotationDeg, "floor")>>)
    /\ UNCHANGED <<planeVars, grabbedId>>

\* EquipmentPanel.handleDeploy with count = 1
DeployObject(shape, dimensions, origin, rotationDeg) ==
    /\ addObjects(<<NewObject(nextObjectId, shape, dimensions, origin,
                              rotationDeg, "floor")>>)
    /\ UNCHANGED <<planeVars, grabbedId>>

RemoveRobot(id) ==
    /\ removeRobot(id)
    /\ UNCHANGED <<planeVars, grabbedId>>

\* RobotRow.commitPosition / updateZ / handleRotation, or any other caller
UpdateRobotTransform(id, position, rotation) ==
    /\ updateRobotTransform(id, position, rotation)
    /\ UNCHANGED <<planeVars, grabbedId>>

UpdateRobotStyle(id, opacity) ==
    /\ updateRobotStyle(id, opacity)
    /\ UNCHANGED <<planeVars, grabbedId>>

DuplicateRobot(id) ==
    /\ duplicateRobot(id)
    /\ UNCHANGED <<planeVars, grabbedId>>

ClearRobots ==
    /\ clearRobots
    /\ UNCHANGED <<planeVars, grabbedId>>

RemoveObject(id) ==
    /\ removeObject(id)
    /\ UNCHANGED <<planeVars, grabbedId>>

\* ObjectRow.commitPosition / commitZ / handleRotation, or any other caller
UpdateObjectTransform(id, position, rotation) ==
    /\ updateObjectTransform(id, position, rotation)
    /\ UNCHANGED <<planeVars, grabbedId>>

\* ObjectRow.commitDim
UpdateObjectDimensions(id, key, value) ==
    /\ updateObjectDimensions(id, key, value)
    /\ UNCHANGED <<planeVars, grabbedId>>

UpdateObjectStyle(id, opacity) ==
    /\ updateObjectStyle(id, opacity)
    /\ UNCHANGED <<planeVars, grabbedId>>

DuplicateObject(id) ==
    /\ duplicateObject(id)
    /\ UNCHANGED <<planeVars, grabbedId>>

ClearObjects ==
    /\ clearObjects
    /\ UNCHANGED <<planeVars, grabbedId>>

\* a direct call of setSelectedRobotId: its callers pass the id of a robot
\* in the store, or null
SelectRobot(id) ==
    /\ id = Null \/ id \in IdsOf(deployedRobots)
    /\ setSelectedRobotId(id)
    /\ UNCHANGED <<planeVars, grabbedId>>

\* a direct call of setSelectedObjectId, likewise
SelectObject(id) ==
    /\ id = Null \/ id \in IdsOf(sceneObjects)
    /\ setSelectedObjectId(id)
    /\ UNCHANGED <<planeVars, grabbedId>>

\* ScenesPanel.handleLoad
RestoreScene(data) ==
    /\ restoreScene(data)
    /\ UNCHANGED <<planeVars, grabbedId>>

BindRobotToObject(robotId, objectId) ==
    /\ bindRobotToObject(robotId, objectId)
    /\ UNCHANGED <<planeVars, grabbedId>>

UnbindRobot(robotId) ==
    /\ unbindRobot(robotId)
    /\ UNCHANGED <<planeVars, grabbedId>>

\* JointsPanel's track slider, or any other caller; pos in percent
SetRobotTrackPosition(robotId, pos) ==
    /\ setRobotTrackPosition(robotId, pos)
    /\ UNCHANGED <<planeVars, grabbedId>>

\* DeployedRobotList.handleDrag: the row's Drag button.  The two store calls
\* are synchronous and back to back: one step.
handleDragRobot(id) ==
    /\ id \in IdsOf(deployedRobots)
    /\ selectedRobotId' = id
    /\ selectedObjectId' = Null
    /\ interactionMode' = "drag"
    /\ UNCHANGED <<deployedRobots, nextRobotId, sceneObjects, nextObjectId,
                   floorClickCoords, snapToGridEnabled, planeVars, grabbedId>>

\* DeployedObjectList.handleDrag
handleDragObject(id) ==
    /\ id \in IdsOf(sceneObjects)
    /\ selectedObjectId' = id
    /\ selectedRobotId' = Null
    /\ interactionMode' = "drag"
    /\ UNCHANGED <<deployedRobots, nextRobotId, sceneObjects, nextObjectId,
                   floorClickCoords, snapToGridEnabled, planeVars, grabbedId>>

\* ControlPanel: the snap-to-grid button of the viewport controls
ToggleSnapToGrid ==
    /\ setSnapToGridEnabled(~snapToGridEnabled)
    /\ UNCHANGED <<planeVars, grabbedId>>

\* ControlPanel / EquipmentPanel handleFloorPickToggle
handleFloorPickToggle ==
    /\ setInteractionMode(IF interactionMode = "place" THEN "orbit"
                          ELSE "place")
    /\ UNCHANGED <<planeVars, grabbedId>>

----------------------------------------------------------------------------
(* The state machine *)

\* the store as create() builds it, the refs as useRef initialises them
Init ==
    /\ deployedRobots = <<>>
    /\ nextRobotId = 1
    /\ sceneObjects = <<>>
    /\ nextObjectId = 1
    /\ selectedRobotId = Null
    /\ selectedObjectId = Null
    /\ interactionMode = "orbit"
    /\ floorClickCoords = Null
    /\ snapToGridEnabled = FALSE
    /\ isDragging = FALSE
    /\ dragOffset = <<0, 0>>
    /\ grabbedId = Null

\* equipment of the catalogue, as <<shape, defaultDimensions>>
Track == <<"linear_track", [length |-> 1000, width |-> 500, height |-> 160]>>

Box == <<"box", [length |-> 1000, width |-> 1000, height |-> 1000]>>

\* scene files: an empty file (every key defaulted) and a saved layout of
\* one robot beside one track
EmptyScene ==
    [deployedRobots |-> <<>>, sceneObjects |-> <<>>, nextRobotId |-> 1,
     nextObjectId |-> 1, snapToGridEnabled |-> FALSE]

SavedScene ==
    [deployedRobots |-> <<NewRobot(1, <<1000, 0, 0>>, 90, "floor")>>,
     sceneObjects |-> <<NewObject(1, Track[1], Track[2], <<0, 0, 0>>, 0,
                                  "floor")>>,
     nextRobotId |-> 2, nextObjectId |-> 2, snapToGridEnabled |-> FALSE]

\* the inputs of the general specification: the store's calls, the mode
\* buttons and the pointer events, the plainest geometry (what moves an
\* entity is a drag, a turn of the grip, a duplicate).  The snap-to-grid
\* button is explored in SpecGesture, the presses under the drag plane in
\* SpecPress.
\* ids are handed to the handlers whether an entity bears them or not, and
\* whatever its kind.
Inputs ==
    [maxRobots |-> MaxRobots,
     maxObjects |-> MaxObjects,
     ids |-> RobotIds(MaxRobots) \cup ObjectIds(MaxObjects),
     points |-> {<<0, 0>>, <<1000, 0>>},
     picks |-> {<<1000, 0>>},
     positions |-> {<<0, 0, 0>>},
     headings |-> {0},
     percents |-> {50},
     opacities |-> {100},
     dims |-> {<<"length", 1000>>},
     equipment |-> {Track},
     scenes |-> {EmptyScene}]

\* direct calls of the store's actions, as the sidebar forms issue them
StoreCalls(I) ==
    \/ \E p \in I.positions, h \in I.headings :
          nextRobotId <= I.maxRobots /\ DeployRobot(p, h)
    \/ \E e \in I.equipment, p \in I.positions, h \in I.headings :
          nextObjectId <= I.maxObjects /\ DeployObject(e[1], e[2], p, h)
    \/ \E id \in I.ids : RemoveRobot(id)
    \/ \E id \in I.ids, p \in I.positions, h \in I.headings :
          UpdateRobotTransform(id, p, h)
    \/ \E id \in I.ids, o \in I.opacities : UpdateRobotStyle(id, o)
    \/ \E id \in I.ids :
          nextRobotId <= I.maxRobots /\ DuplicateRobot(id) /\ InBounds'
    \/ ClearRobots
    \/ \E id \in I.ids : RemoveObject(id)
    \/ \E id \in I.ids, p \in I.positions, h \in I.headings :
          UpdateObjectTransform(id, p, h) /\ InBounds'
    \/ \E id \in I.ids, d \in I.dims : UpdateObjectDimensions(id, d[1], d[2])
    \/ \E id \in I.ids, o \in I.opacities : UpdateObjectStyle(id, o)
    \/ \E id \in I.ids :
          nextObjectId <= I.maxObjects /\ DuplicateObject(id) /\ InBounds'
    \/ ClearObjects
    \/ \E id \in I.ids \cup {Null} : SelectRobot(id)
    \/ \E id \in I.ids \cup {Null} : SelectObject(id)
    \/ \E data \in I.scenes : RestoreScene(data)
    \/ \E r \in I.ids, o \in I.ids : BindRobotToObject(r, o)
    \/ \E id \in I.ids : UnbindRobot(id)
    \/ \E id \in I.ids, pos \in I.percents :
          SetRobotTrackPosition(id, pos) /\ InBounds'

\* the sidebar's mode buttons and the clicks on the floor
ModeButtons(I) ==
    \/ \E id \in I.ids : handleDragRobot(id)
    \/ \E id \in I.ids : handleDragObject(id)
    \/ handleFloorPickToggle
    \/ \E pt \in I.picks : FloorClickPlane_handleClick(pt)
    \/ ConsumeFloorClick
    \/ handleFloorClick

\* the pointer events of the canvas
PointerEvents(I) ==
    \/ \E id \in I.ids, pt \in I.points : PointerDownOnRobot(id, pt)
    \/ \E id \in I.ids, pt \in I.points : PointerDownOnObject(id, pt)
    \/ \E pt \in I.points : PointerDownOnGrip(pt)
    \/ \E pt \in I.points : PointerDownOnFloor(pt)
    \/ \E pt \in I.points : PointerMove(pt) /\ InBounds'
    \/ PointerUp

\* presses on an entity that stands lower than the selected one
PressesUnderPlane(I) ==
    \/ \E id \in I.ids, pt \in I.points : PointerDownUnderPlaneOnRobot(id, pt)
    \/ \E id \in I.ids, pt \in I.points : PointerDownUnderPlaneOnObject(id, pt)

Next == StoreCalls(Inputs) \/ ModeButtons(Inputs) \/ PointerEvents(Inputs)

Spec == Init /\ [][Next]_vars

\* the inputs of the specification of the store's calls: two entities of
\* each kind (a duplicate stands 1 m off its source), headings and track
\* positions in and out of range
StoreInputs ==
    [maxRobots |-> StoreMaxRobots,
     maxObjects |-> StoreMaxObjects,
     ids |-> RobotIds(StoreMaxRobots) \cup ObjectIds(StoreMaxObjects),
     positions |-> {<<0, 0, 0>>},
     headings |-> {0, 360},
     percents |-> {50, 150},
     opacities |-> {100},
     dims |-> {<<"length", 1000>>},
     equipment |-> {Track},
     scenes |-> {EmptyScene}]

NextStore == StoreCalls(StoreInputs)

SpecStore == Init /\ [][NextStore]_vars

\* the inputs of the specification of the cascade: one robot, one object
CascadeInputs ==
    [maxRobots |-> MaxRobots,
     maxObjects |-> MaxObjects,
     ids |-> RobotIds(MaxRobots) \cup ObjectIds(MaxObjects),
     points |-> {<<0, 0>>, <<1000, 0>>},
     positions |-> {<<0, 0, 0>>, <<1000, 0, 0>>},
     headings |-> {0, 90},
     percents |-> {0, 50, 100},
     dims |-> {<<"length", 2000>>},
     equipment |-> {Track, Box}]

\* a parent is given a robot; then either is moved, by a form or a gesture
NextCascade ==
    \/ \E p \in CascadeInputs.positions, h \in CascadeInputs.headings :
          nextRobotId <= CascadeInputs.maxRobots /\ DeployRobot(p, h)
    \/ \E e \in CascadeInputs.equipment, p \in CascadeInputs.positions,
          h \in CascadeInputs.headings :
          nextObjectId <= CascadeInputs.maxObjects
              /\ DeployObject(e[1], e[2], p, h)
    \/ \E r \in CascadeInputs.ids, o \in CascadeInputs.ids :
          BindRobotToObject(r, o)
    \/ \E id \in CascadeInputs.ids, pos \in CascadeInputs.percents :
          SetRobotTrackPosition(id, pos) /\ InBounds'
    \/ \E id \in CascadeInputs.ids, p \in CascadeInputs.positions,
          h \in CascadeInputs.headings :
          UpdateObjectTransform(id, p, h) /\ InBounds'
    \/ \E id \in CascadeInputs.ids, d \in CascadeInputs.dims :
          UpdateObjectDimensions(id, d[1], d[2])
    \/ \E id \in CascadeInputs.ids, p \in CascadeInputs.positions,
          h \in CascadeInputs.headings :
          UpdateRobotTransform(id, p, h)
    \/ PointerEvents(CascadeInputs)

SpecCascade == Init /\ [][NextCascade]_vars

\* the inputs of the specification of the parent bindings: one robot, one
\* object, the store's calls alone, every quarter turn; `typed` are the
\* positions a robot's row commits, one of them off the store's 0.01 m
\* rounding grid
BindInputs ==
    [maxRobots |-> MaxRobots,
     maxObjects |-> MaxObjects,
     ids |-> RobotIds(MaxRobots) \cup ObjectIds(MaxObjects),
     positions |-> {<<0, 0, 0>>, <<1000, 0, 0>>, <<0, 1000, 0>>},
     typed |-> {<<0, 0, 0>>, <<1000, 0, 0>>, <<4, 0, 0>>},
     headings |-> {0, 90, 180, 270},
     percents |-> {0, 50, 100},
     dims |-> {<<"length", 1000>>, <<"length", 2000>>},
     equipment |-> {Track, Box}]

NextBind ==
    \/ \E p \in BindInputs.typed, h \in BindInputs.headings :
          nextRobotId <= BindInputs.maxRobots /\ DeployRobot(p, h)
    \/ \E e \in BindInputs.equipment, p \in BindInputs.positions,
          h \in BindInputs.headings :
          nextObjectId <= BindInputs.maxObjects
              /\ DeployObject(e[1], e[2], p, h)
    \/ \E id \in BindInputs.ids, p \in BindInputs.typed,
          h \in BindInputs.headings :
          UpdateRobotTransform(id, p, h)
    \/ \E r \in BindInputs.ids, o \in BindInputs.ids :
          BindRobotToObject(r, o)
    \/ \E id \in BindInputs.ids : UnbindRobot(id)
    \/ \E id \in BindInputs.ids, pos \in BindInputs.percents :
          SetRobotTrackPosition(id, pos) /\ InBounds'
    \/ \E id \in BindInputs.ids, p \in BindInputs.positions,
          h \in BindInputs.headings :
          UpdateObjectTransform(id, p, h) /\ InBounds'
    \/ \E id \in BindInputs.ids, d \in BindInputs.dims :
          UpdateObjectDimensions(id, d[1], d[2])

SpecBind == Init /\ [][NextBind]_vars

\* saved layouts for the specification of the gestures: a robot on the
\* floor; a ceiling robot 1 m up, saved with snap-to-grid on; a box on a
\* platform 1 m up
FloorRobotScene ==
    [deployedRobots |-> <<NewRobot(1, <<0, 0, 0>>, 0, "floor")>>,
     sceneObjects |-> <<>>, nextRobotId |-> 2, nextObjectId |-> 1,
     snapToGridEnabled |-> FALSE]

CeilingRobotScene ==
    [deployedRobots |-> <<NewRobot(1, <<0, 0, 1000>>, 90, "ceiling")>>,
     sceneObjects |-> <<>>, nextRobotId |-> 2, nextObjectId |-> 1,
     snapToGridEnabled |-> TRUE]

PlatformBoxScene ==
    [deployedRobots |-> <<>>,
     sceneObjects |-> <<NewObject(1, Box[1], Box[2], <<0, 0, 1000>>, 0,
                                  "platform")>>,
     nextRobotId |-> 1, nextObjectId |-> 2, snapToGridEnabled |-> FALSE]

\* the inputs of the specification of the gestures: one entity at a time,
\* loaded from a saved layout; ground points off the snap grid and off the
\* axes of the entity
GestureInputs ==
    [ids |-> RobotIds(MaxRobots) \cup ObjectIds(MaxObjects),
     points |-> {<<0, 0>>, <<250, 0>>, <<500, 1000>>},
     scenes |-> {FloorRobotScene, CeilingRobotScene, PlatformBoxScene}]

\* a layout is loaded; its entity is pressed, dragged, turned and released,
\* with snap-to-grid on or off
NextGesture ==
    \/ \E data \in GestureInputs.scenes : RestoreScene(data)
    \/ ToggleSnapToGrid
    \/ handleFloorClick
    \/ PointerEvents(GestureInputs)

SpecGesture == Init /\ [][NextGesture]_vars

\* saved layouts for the specification of the presses: a robot and a box,
\* one of them 1 m above the other
LowRobotScene ==
    [deployedRobots |-> <<NewRobot(1, <<0, 0, 0>>, 0, "floor")>>,
     sceneObjects |-> <<NewObject(1, Box[1], Box[2], <<1000, 0, 1000>>, 0,
                                  "platform")>>,
     nextRobotId |-> 2, nextObjectId |-> 2, snapToGridEnabled |-> FALSE]

HighRobotScene ==
    [deployedRobots |-> <<NewRobot(1, <<0, 0, 1000>>, 0, "ceiling")>>,
     sceneObjects |-> <<NewObject(1, Box[1], Box[2], <<1000, 0, 0>>, 0,
                                  "floor")>>,
     nextRobotId |-> 2, nextObjectId |-> 2, snapToGridEnabled |-> FALSE]

\* the inputs of the specification of the presses; one of the floor picks
\* is off the 0.1 m grid of FloorClickPlane
PressInputs ==
    [ids |-> RobotIds(MaxRobots) \cup ObjectIds(MaxObjects),
     points |-> {<<0, 0>>, <<1000, 0>>},
     picks |-> {<<1000, 0>>, <<1260, 0>>},
     scenes |-> {LowRobotScene, HighRobotScene}]

\* a layout is loaded; its entities are pressed in every mode, above and
\* under the drag plane, with one pointer or several
NextPress ==
    \/ \E data \in PressInputs.scenes : RestoreScene(data)
    \/ PointerEvents(PressInputs)
    \/ PressesUnderPlane(PressInputs)
    \/ ModeButtons(PressInputs)

SpecPress == Init /\ [][NextPress]_vars

\* a saved layout for the specification of the parents: a floor robot, a
\* ceiling robot and a track whose rotation sliders stand at their maximum
\* (360), and a box turned a quarter
FleetScene ==
    [deployedRobots |-> <<NewRobot(1, <<0, 0, 0>>, 0, "floor"),
                          NewRobot(2, <<1000, 1000, 1000>>, 360, "ceiling")>>,
     sceneObjects |-> <<NewObject(1, Track[1], Track[2], <<0, 0, 0>>, 360,
                                  "floor"),
                        NewObject(2, Box[1], Box[2], <<1000, 0, 0>>, 90,
                                  "floor")>>,
     nextRobotId |-> 3, nextObjectId |-> 3, snapToGridEnabled |-> FALSE]

\* the inputs of the specification of the parents: two robots and two
\* parents of a loaded layout; a parent is moved to a placement
\* <<position, rotation>> and made longer
ParentInputs ==
    [ids |-> RobotIds(StoreMaxRobots) \cup ObjectIds(StoreMaxObjects),
     placements |-> {<<<<0, 0, 0>>, 0>>, <<<<0, 1000, 0>>, 90>>},
     percents |-> {0, 100},
     dims |-> {<<"length", 2000>>},
     scenes |-> {FleetScene}]

\* the layout is loaded; its robots are bound, moved along the track and
\* unbound while the parents are moved, turned, resized and removed
NextParents ==
    \/ \E data \in ParentInputs.scenes : RestoreScene(data)
    \/ \E r \in ParentInputs.ids, o \in ParentInputs.ids :
          BindRobotToObject(r, o)
    \/ \E id \in ParentInputs.ids : UnbindRobot(id)
    \/ \E id \in ParentInputs.ids, pos \in ParentInputs.percents :
          SetRobotTrackPosition(id, pos) /\ InBounds'
    \/ \E id \in ParentInputs.ids, pl \in ParentInputs.placements :
          UpdateObjectTransform(id, pl[1], pl[2]) /\ InBounds'
    \/ \E id \in ParentInputs.ids, d \in ParentInputs.dims :
          UpdateObjectDimensions(id, d[1], d[2])
    \/ \E id \in ParentInputs.ids : RemoveObject(id)
    \/ ClearObjects

SpecParents == Init /\ [][NextParents]_vars

\* a saved layout for the specification of the selection: a robot standing
\* on a box
StackScene ==
    [deployedRobots |-> <<NewRobot(1, <<0, 0, 1000>>, 0, "platform")>>,
     sceneObjects |-> <<NewObject(1, Box[1], Box[2], <<0, 0, 0>>, 0,
                                  "floor")>>,
     nextRobotId |-> 2, nextObjectId |-> 2, snapToGridEnabled |-> FALSE]

\* the inputs of the specification of the selection: up to two entities of
\* each kind, the second a duplicate of the first
SelectInputs ==
    [maxRobots |-> StoreMaxRobots,
     maxObjects |-> StoreMaxObjects,
     ids |-> RobotIds(StoreMaxRobots) \cup ObjectIds(StoreMaxObjects),
     points |-> {<<0, 0>>},
     scenes |-> {StackScene}]

\* the layout is loaded; its entities are pressed, dragged, turned,
\* duplicated, removed and cleared in any order
NextSelect ==
    \/ \E data \in SelectInputs.scenes : RestoreScene(data)
    \/ \E id \in SelectInputs.ids : RemoveRobot(id)
    \/ \E id \in SelectInputs.ids : RemoveObject(id)
    \/ \E id \in SelectInputs.ids :
          nextRobotId <= SelectInputs.maxRobots /\ DuplicateRobot(id)
    \/ \E id \in SelectInputs.ids :
          nextObjectId <= SelectInputs.maxObjects /\ DuplicateObject(id)
    \/ ClearRobots
    \/ ClearObjects
    \/ \E id \in SelectInputs.ids : handleDragRobot(id)
    \/ \E id \in SelectInputs.ids : handleDragObject(id)
    \/ PointerEvents(SelectInputs)

SpecSelect == Init /\ [][NextSelect]_vars

\* the inputs of the specification of the ids: batches of one and two
\* entities at the origin, robots 1 m apart
IdInputs ==
    [maxId |-> IdMax,
     ids |-> RobotIds(IdMax) \cup ObjectIds(IdMax),
     counts |-> {1, 2},
     spacings |-> {1000},
     positions |-> {<<0, 0, 0>>},
     headings |-> {0},
     equipment |-> {Box}]

\* entities are deployed in batches, duplicated, removed and cleared
NextIds ==
    \/ \E n \in IdInputs.counts, p \in IdInputs.positions,
          h \in IdInputs.headings, s \in IdInputs.spacings :
          nextRobotId + n - 1 <= IdInputs.maxId /\ DeployRobots(n, p, h, s)
    \/ \E n \in IdInputs.counts, e \in IdInputs.equipment,
          p \in IdInputs.positions, h \in IdInputs.headings :
          nextObjectId + n - 1 <= IdInputs.maxId
              /\ DeployObjects(e[1], e[2], n, p, h)
    \/ \E id \in IdInputs.ids :
          nextRobotId <= IdInputs.maxId /\ DuplicateRobot(id)
    \/ \E id \in IdInputs.ids :
          nextObjectId <= IdInputs.maxId /\ DuplicateObject(id)
    \/ \E id \in IdInputs.ids : RemoveRobot(id)
    \/ \E id \in IdInputs.ids : RemoveObject(id)
    \/ ClearRobots
    \/ ClearObjects

SpecIds == Init /\ [][NextIds]_vars

----------------------------------------------------------------------------
(* Properties *)

RobotsOf(seq) == {seq[i] : i \in 1..Len(seq)}

\* robot r stands where parent o and r's stored offset put it: x, y and
\* heading (x and y as the store rounds them)
Derived(r, o) ==
    LET w == WorldOf(o.position, o.rotation, r.parentOffset) IN
    /\ r.position[1] = Round2(w[1])
    /\ r.position[2] = Round2(w[2])
    /\ r.rotation = w[3]

\* C1 as the specification states it: in every reachable state every robot
\* with a parent stands at the composition of its parent's current position
\* and rotation with its stored parentOffset, also after updateRobotTransform
\* on the bound robot itself.
C1_BoundRobotsDerived ==
    \A r \in RobotsOf(deployedRobots) :
        r.parentObjectId # Null =>
            /\ HasId(sceneObjects, r.parentObjectId)
            /\ r.parentOffset # Null
            /\ Derived(r, sceneObjects[FindIndex(sceneObjects,
                                                 r.parentObjectId)])

\* C2: a step that changes an object's position or rotation leaves, in the
\* state it produces, every robot bound to that object (with an offset) at
\* the placement derived from the object's new placement: parent and robots
\* change in one store update, whether the step is a form edit
\* (UpdateObjectTransform) or a pointer-move of a drag or rotate gesture.
C2_CascadeAtomic ==
    [][\A o \in RobotsOf(sceneObjects') :
          LET k == FindIndex(sceneObjects, o.id) IN
          (k # 0 /\ <<sceneObjects[k].position, sceneObjects[k].rotation>>
                        # <<o.position, o.rotation>>)
          => \A r \in RobotsOf(deployedRobots') :
                (r.parentObjectId = o.id /\ r.parentOffset # Null)
                => Derived(r, o)]_vars

\* C2's case: a parent that the grip turned to 270 degrees (no form of the
\* specification writes 270) carries a robot at an offset of its own
C2_Witness ==
    \E o \in RobotsOf(sceneObjects), r \in RobotsOf(deployedRobots) :
        /\ o.rotation = 270
        /\ selectedObjectId = o.id
        /\ r.parentObjectId = o.id
        /\ r.parentOffset # Null
        /\ r.parentOffset[1] # 0
        /\ r.position[2] # o.position[2]
        /\ Derived(r, o)

\* C3: in every reachable state selectedRobotId and selectedObjectId are
\* never both non-null, after any sequence of the store's calls.
C3_SelectionExclusive == selectedRobotId = Null \/ selectedObjectId = Null

\* C3's case: the clone of a duplicated robot is selected while the scene
\* holds an object that could have been selected
C3_Witness ==
    /\ selectedRobotId = RobotIdOf(2)
    /\ Len(deployedRobots) = 2
    /\ sceneObjects # <<>>

HeadingInRange(h) == 0 <= h /\ h < 360

\* C4 as the specification states it: after any call of updateRobotTransform
\* or updateObjectTransform the stored heading of the updated entity lies in
\* [0, 360), whatever heading was passed in.
C4_HeadingNormalized ==
    [][\A id \in StoreInputs.ids, p \in StoreInputs.positions,
          h \in StoreInputs.headings :
          /\ (updateRobotTransform(id, p, h)
              => \A r \in RobotsOf(deployedRobots') :
                    r.id = id => HeadingInRange(r.rotation))
          /\ (updateObjectTransform(id, p, h)
              => \A o \in RobotsOf(sceneObjects') :
                    o.id = id => HeadingInRange(o.rotation))]_vars

\* the transitions of the mode machine: Idle is "orbit"
LegalModeChanges ==
    {<<"orbit", "place">>, <<"place", "orbit">>, <<"orbit", "drag">>,
     <<"orbit", "rotate">>, <<"drag", "orbit">>, <<"rotate", "orbit">>}

\* C5 as the specification states it: every change of interactionMode is
\* one of Idle->Place, Place->Idle, Idle->Drag, Idle->Rotate, Drag->Idle,
\* Rotate->Idle.
C5_LegalModeChanges ==
    [][interactionMode' # interactionMode
       => <<interactionMode, interactionMode'>> \in LegalModeChanges]_vars

\* C6 as the specification states it: from every reachable state in which
\* interactionMode is 'drag' or 'rotate', the next pointer release leaves
\* interactionMode 'orbit'.
C6_ReleaseReturnsToOrbit ==
    interactionMode \in {"drag", "rotate"} => PointerUpMode = "orbit"

\* a gesture is running and the entity it grabbed is no longer in the store
GestureEntityGone ==
    /\ isDragging
    /\ grabbedId # Null
    /\ grabbedId \notin IdsOf(deployedRobots) \cup IdsOf(sceneObjects)

\* C7 as the specification states it: once the dragged entity is removed
\* during a gesture, no pointer-move changes any entity, and after the next
\* pointer-move or pointer-up the mode is 'orbit'.
C7_RemovedMidDrag ==
    [][/\ (GestureEntityGone
           => \A pt \in Inputs.points :
                 PointerMove(pt)
                 => UNCHANGED <<deployedRobots, sceneObjects>>)
       /\ (GestureEntityGone'
           => (PointerMoveMode' = "orbit" /\ PointerUpMode' = "orbit"))]_vars

\* what C8 says a call with a non-matching id leaves alone
EntityVars ==
    <<deployedRobots, sceneObjects, selectedRobotId, selectedObjectId,
      nextRobotId, nextObjectId, interactionMode>>

\* the step is a call, with robot id `id`, of an action that expects one
RobotCall(id) ==
    \/ \E p \in StoreInputs.positions, h \in StoreInputs.headings :
          updateRobotTransform(id, p, h)
    \/ \E o \in StoreInputs.opacities : updateRobotStyle(id, o)
    \/ removeRobot(id)
    \/ duplicateRobot(id)
    \/ \E objectId \in StoreInputs.ids : bindRobotToObject(id, objectId)
    \/ unbindRobot(id)
    \/ \E pos \in StoreInputs.percents : setRobotTrackPosition(id, pos)

\* the step is a call, with object id `id`, of an action that expects one
ObjectCall(id) ==
    \/ \E p \in StoreInputs.positions, h \in StoreInputs.headings :
          updateObjectTransform(id, p, h)
    \/ \E d \in StoreInputs.dims : updateObjectDimensions(id, d[1], d[2])
    \/ \E o \in StoreInputs.opacities : updateObjectStyle(id, o)
    \/ removeObject(id)
    \/ duplicateObject(id)
    \/ \E robotId \in StoreInputs.ids : bindRobotToObject(robotId, id)

\* C8: a call of updateRobotTransform, updateObjectTransform,
\* updateObjectDimensions, updateRobotStyle, updateObjectStyle, removeRobot,
\* removeObject, duplicateRobot, duplicateObject, bindRobotToObject,
\* unbindRobot or setRobotTrackPosition with an id that no entity of the
\* expected kind bears leaves deployedRobots, sceneObjects, both selections,
\* both id counters and interactionMode unchanged.
C8_MissingIdNoOp ==
    [][\A id \in StoreInputs.ids :
          ((~HasId(deployedRobots, id) /\ RobotCall(id))
              \/ (~HasId(sceneObjects, id) /\ ObjectCall(id)))
          => UNCHANGED EntityVars]_vars

\* C8's case: r-1 is gone while its clone r-2 is selected and bound, so
\* that a call naming r-1, or naming r-2 as an object, has something to spoil
C8_Witness ==
    /\ IdsOf(deployedRobots) = {RobotIdOf(2)}
    /\ selectedRobotId = RobotIdOf(2)
    /\ deployedRobots[1].parentObjectId # Null
    /\ Len(sceneObjects) = 2

\* C9 as the specification states it: a stored trackPosition lies in [0, 1]
\* (0..100 percent) and the robot within the track's travel, whatever
\* fraction setRobotTrackPosition was called with.
C9_TrackPositionClamped ==
    \A r \in RobotsOf(deployedRobots) :
        r.trackPosition # Null =>
            /\ 0 <= r.trackPosition[1] /\ r.trackPosition[1] <= 100
            /\ \A o \in RobotsOf(sceneObjects) :
                  (o.id = r.parentObjectId /\ r.parentOffset # Null)
                  => /\ 2 * r.parentOffset[1] <= o.dimensions.length
                     /\ -2 * r.parentOffset[1] <= o.dimensions.length

\* the parent relation has no cycle: parents are objects, and objects have
\* no parent, so a cycle needs a parent id that is a robot's
NoCycle ==
    \A r \in RobotsOf(deployedRobots) :
        r.parentObjectId # Null =>
            /\ r.parentObjectId # r.id
            /\ r.parentObjectId \notin IdsOf(deployedRobots)
            /\ r.parentObjectId \in IdsOf(sceneObjects)

\* C10: a bind of an entity to itself is rejected and leaves the store
\* unchanged, and in every state a step reaches the parent relation
\* contains no cycle.
C10_NoSelfBindNoCycle ==
    [][/\ \A id \in StoreInputs.ids :
             bindRobotToObject(id, id) => UNCHANGED storeVars
       /\ NoCycle']_vars

\* C10's case: both robots are in the store, one of them bound, so that a
\* bind naming a robot as the parent has entities to act on
C10_Witness ==
    /\ Len(deployedRobots) = 2
    /\ \E r \in RobotsOf(deployedRobots) : r.parentObjectId # Null
    /\ \E r \in RobotsOf(deployedRobots) : r.parentObjectId = Null

\* the example of the specification: a robot bound at offset (2, 0, 0) to
\* a parent that updateObjectTransform moves to (10, 5) with heading 90
ExampleChild ==
    [NewRobot(1, <<2000, 0, 0>>, 0, "floor")
        EXCEPT !.parentObjectId = ObjectIdOf(1),
               !.parentOffset = <<2000, 0, 0>>]

ExampleCascaded ==
    CascadeRobot(ExampleChild, ObjectIdOf(1), <<10000, 5000, 0>>, 90)

\* C11: a step that is updateObjectTransform(id, (px, py, pz), h) gives each
\* robot bound to id with offset (dx, dy, dRot) x = px + dx*cos(h) -
\* dy*sin(h) and y = py + dx*sin(h) + dy*cos(h), rounded to 2 decimals, and
\* heading (h + dRot) normalized into [0, 360), whether a form or a
\* pointer-move issues the call; and a parent at (10, 5) with heading 90
\* gives a child at offset (2, 0, 0) the position (10, 7) and heading 90.
C11_CascadeFormula ==
    [][/\ ExampleCascaded.position = <<10000, 7000, 0>>
       /\ ExampleCascaded.rotation = 90
       /\ \A o \in RobotsOf(sceneObjects') :
             updateObjectTransform(o.id, o.position, o.rotation)
             => \A i \in 1..Len(deployedRobots) :
                   LET r == deployedRobots[i]
                       moved == deployedRobots'[i]
                       dx == r.parentOffset[1]
                       dy == r.parentOffset[2]
                       dRot == r.parentOffset[3]
                       px == o.position[1]
                       py == o.position[2]
                       h == o.rotation
                   IN (r.parentObjectId = o.id /\ r.parentOffset # Null)
                      => /\ moved.position[1] =
                              Round2(px + dx * CosDeg(h) - dy * SinDeg(h))
                         /\ moved.position[2] =
                              Round2(py + dx * SinDeg(h) + dy * CosDeg(h))
                         /\ moved.rotation = (h + dRot) % 360
                         /\ HeadingInRange(moved.rotation)]_vars

\* C11's case: a parent turned to 90 degrees carries a robot whose offset
\* (4 mm along x) is off the rounding grid, so the robot stands on the
\* rounded place beside the parent
C11_Witness ==
    \E o \in RobotsOf(sceneObjects), r \in RobotsOf(deployedRobots) :
        /\ r.parentObjectId = o.id
        /\ r.parentOffset # Null
        /\ r.parentOffset[1] = 4
        /\ o.rotation = 90
        /\ o.position[1] = 1000
        /\ r.position = <<1000, 0, 0>>

\* the example of the specification: a track of length 5 at (0, 0) with
\* heading 0, and the robot a bind puts on it
ExampleTrack ==
    NewObject(1, Track[1], [Track[2] EXCEPT !.length = 5000], <<0, 0, 0>>, 0,
              "floor")

ExampleRider ==
    BoundToTrack(NewRobot(1, <<1000, 1000, 0>>, 90, "floor"), ExampleTrack)

\* the x and y of a position
XY(position) == <<position[1], position[2]>>

\* C12: a bind of a robot to a linear_track with heading 0 at (px, py)
\* leaves the robot at (px, py) with trackPosition 0.5, and a
\* setRobotTrackPosition(robot, f) on a robot riding a track of length L
\* with heading 0 leaves it at (px + (f - 0.5) * L, py), both to the
\* store's two decimals; for L = 5 at (0, 0), the bind gives (0, 0), f = 0
\* gives (-2.5, 0) and f = 1 gives (2.5, 0).
C12_TrackPlacement ==
    [][/\ XY(ExampleRider.position) = <<0, 0>>
       /\ ExampleRider.trackPosition = <<50>>
       /\ XY(OnTrackAt(ExampleRider, ExampleTrack, 0).position)
             = <<-2500, 0>>
       /\ XY(OnTrackAt(ExampleRider, ExampleTrack, 100).position)
             = <<2500, 0>>
       /\ \A i \in 1..Len(deployedRobots), o \in RobotsOf(sceneObjects) :
             LET r == deployedRobots[i]
                 placed == deployedRobots'[i]
                 px == o.position[1]
                 py == o.position[2]
                 L == o.dimensions.length
             IN (IsTrack(o) /\ o.rotation = 0)
                => /\ (bindRobotToObject(r.id, o.id)
                       => /\ XY(placed.position) = <<Round2(px), Round2(py)>>
                          /\ placed.trackPosition = <<50>>)
                   /\ \A f \in BindInputs.percents :
                         (r.parentObjectId = o.id
                            /\ setRobotTrackPosition(r.id, f))
                         => XY(placed.position) =
                               <<Round2(px + ((f - 50) * L) \div 100),
                                 Round2(py)>>]_vars

\* C12's case: a robot rides at fraction 0 a track of length 2 that lies
\* at (1, 0) with heading 0, one half-length before the track's middle
C12_Witness ==
    \E o \in RobotsOf(sceneObjects), r \in RobotsOf(deployedRobots) :
        /\ IsTrack(o)
        /\ o.rotation = 0
        /\ o.dimensions.length = 2000
        /\ XY(o.position) = <<1000, 0>>
        /\ r.parentObjectId = o.id
        /\ r.trackPosition = <<0>>
        /\ XY(r.position) = <<0, 0>>

\* the id, position and rotation of every entity of a list
Placements(seq) ==
    [i \in 1..Len(seq) |-> <<seq[i].id, seq[i].position, seq[i].rotation>>]

\* C13: a pointer-up that ends an active drag or rotate gesture sets
\* interactionMode to 'orbit' and leaves selectedRobotId, selectedObjectId
\* and the position and rotation of every robot and object unchanged.
C13_ReleaseKeepsSelection ==
    [][(isDragging /\ PointerUp)
       => /\ interactionMode' = "orbit"
          /\ UNCHANGED <<selectedRobotId, selectedObjectId>>
          /\ Placements(deployedRobots') = Placements(deployedRobots)
          /\ Placements(sceneObjects') = Placements(sceneObjects)]_vars

\* C13's case: the robot is still selected, away from where its layout put
\* it and at a heading only the grip gives, after the release that ended
\* the rotate gesture
C13_Witness ==
    /\ interactionMode = "orbit"
    /\ ~isDragging
    /\ selectedRobotId = RobotIdOf(1)
    /\ \E r \in RobotsOf(deployedRobots) :
          r.rotation = 30 /\ XY(r.position) # <<0, 0>>

\* the step is a press at pt on robot id, above or under the drag plane
RobotPress(id, pt) ==
    PointerDownOnRobot(id, pt) \/ PointerDownUnderPlaneOnRobot(id, pt)

\* the step is a press at pt on object id, above or under the drag plane
ObjectPress(id, pt) ==
    PointerDownOnObject(id, pt) \/ PointerDownUnderPlaneOnObject(id, pt)

\* the press left a running gesture whose offset is the entity's (x, y)
\* minus the ground point
GestureStartedAt(entity, pt) ==
    /\ isDragging'
    /\ dragOffset' = <<entity.position[1] - pt[1], entity.position[2] - pt[2]>>

\* C14 as the specification states it: a pointer-down on a robot (or scene
\* object) while interactionMode is 'orbit' sets the selection to exactly
\* that entity, clears the selection of the other kind, sets interactionMode
\* to 'drag', and the drag surface starts the gesture on that same press,
\* recording offset = entity (x, y) minus the pointer's ground point.
C14_PressSelectsAndStartsDrag ==
    [][interactionMode = "orbit"
       => \A pt \in PressInputs.points :
             /\ \A r \in RobotsOf(deployedRobots) :
                   RobotPress(r.id, pt)
                   => /\ selectedRobotId' = r.id
                      /\ selectedObjectId' = Null
                      /\ interactionMode' = "drag"
                      /\ GestureStartedAt(r, pt)
             /\ \A o \in RobotsOf(sceneObjects) :
                   ObjectPress(o.id, pt)
                   => /\ selectedObjectId' = o.id
                      /\ selectedRobotId' = Null
                      /\ interactionMode' = "drag"
                      /\ GestureStartedAt(o, pt)]_vars

\* C15: a pointer-down on a robot or scene object while interactionMode is
\* not 'orbit' ('place', 'drag' or 'rotate') changes neither
\* selectedRobotId, selectedObjectId nor interactionMode, whichever of the
\* entity and the drag plane the press reaches first.
C15_PressIgnoredOutsideOrbit ==
    [][interactionMode # "orbit"
       => \A id \in PressInputs.ids, pt \in PressInputs.points :
             (RobotPress(id, pt) \/ ObjectPress(id, pt))
             => UNCHANGED <<selectedRobotId, selectedObjectId,
                            interactionMode>>]_vars

\* C15's case: in 'drag' mode with the box selected, a press at the place
\* of the robot has reached the drag plane (the offset is the box's place
\* less the robot's) and the box is still the selection
C15_Witness ==
    /\ interactionMode = "drag"
    /\ selectedObjectId = ObjectIdOf(1)
    /\ selectedRobotId = Null
    /\ isDragging
    /\ \E r \in RobotsOf(deployedRobots), o \in RobotsOf(sceneObjects) :
          /\ XY(r.position) # XY(o.position)
          /\ dragOffset = <<o.position[1] - r.position[1],
                            o.position[2] - r.position[2]>>

\* the step is a press at pt that reaches the drag plane: on the floor, on
\* an entity or on the grip
AnyPress(pt) ==
    \/ PointerDownOnFloor(pt)
    \/ PointerDownOnGrip(pt)
    \/ \E id \in PressInputs.ids : RobotPress(id, pt) \/ ObjectPress(id, pt)

\* C16 as the specification states it: while a gesture is active, a
\* pointer-down (of a second pointer) that reaches the drag surface does
\* not start another gesture and does not change the drag offset recorded
\* for the active gesture.
C16_OneGestureAtATime ==
    [][isDragging
       => \A pt \in PressInputs.points :
             /\ (PointerDownOnFloor(pt)
                 => ~GestureStarts(interactionMode, selectedRobotId,
                                   selectedObjectId))
             /\ (AnyPress(pt) => UNCHANGED dragOffset)]_vars

\* the selected entity, Null when nothing is selected or the selected id
\* is not in the store
SelectedEntity ==
    LET res == resolveSelected(selectedRobotId, selectedObjectId) IN
    IF res.index = 0 THEN Null ELSE EntityOf(res)

\* the step is a press at pt in SpecGesture
GesturePress(pt) ==
    \/ PointerDownOnFloor(pt)
    \/ PointerDownOnGrip(pt)
    \/ \E id \in GestureInputs.ids :
          PointerDownOnRobot(id, pt) \/ PointerDownOnObject(id, pt)

\* the step is a pointer-move at pt that handlePointerMove processes as a
\* drag: a gesture runs in 'drag' mode on an entity in the store
DragMove(pt) ==
    /\ isDragging
    /\ interactionMode = "drag"
    /\ SelectedEntity # Null
    /\ PointerMove(pt)

\* C17: with snap-to-grid disabled, in a drag gesture started by a
\* pointer-down at ground point p0 on an entity at (x0, y0), every later
\* pointer-move at ground point p sets the entity's (x, y) to
\* (x0, y0) + (p - p0), and a move back to p0 restores (x0, y0).  In steps:
\* the press that leaves the store in 'drag' mode records
\* dragOffset = (x0, y0) - p0 (so that p0 + dragOffset is (x0, y0)), nothing
\* but such a press changes dragOffset, and every drag move with snap off
\* writes p + dragOffset.  A press accepted while a gesture runs is the
\* pointer-down of the moves that follow it.
C17_GrabRelativeDrag ==
    [][\A pt \in GestureInputs.points :
          /\ (GesturePress(pt) /\ interactionMode' = "drag"
                 /\ SelectedEntity' # Null)
              => /\ isDragging'
                 /\ <<pt[1] + dragOffset'[1], pt[2] + dragOffset'[2]>>
                       = XY(SelectedEntity.position)'
                 /\ XY(SelectedEntity.position)'
                       = XY(EntityOf(resolveSelected(selectedRobotId',
                                         selectedObjectId')).position)
          /\ (dragOffset' # dragOffset
              => \E p0 \in GestureInputs.points :
                    GesturePress(p0) /\ interactionMode' = "drag")
          /\ (DragMove(pt) /\ ~snapToGridEnabled)
              => XY(SelectedEntity.position)'
                    = <<pt[1] + dragOffset[1], pt[2] + dragOffset[2]>>]_vars

\* C17's case: a robot that stood at (0, 0) was pressed at (0.25, 0) and the
\* pointer is now at (0.5, 1): the robot is at (0.25, 1), not at the cursor
C17_Witness ==
    /\ isDragging
    /\ interactionMode = "drag"
    /\ ~snapToGridEnabled
    /\ dragOffset = <<-250, 0>>
    /\ selectedRobotId = RobotIdOf(1)
    /\ \E r \in RobotsOf(deployedRobots) :
          r.mountType = "floor" /\ XY(r.position) = <<250, 1000>>

\* C18: every pointer-move processed during a drag gesture leaves the
\* dragged entity's height (position[2]) and heading unchanged, and its
\* mount type with them, with snap-to-grid on or off, for robots and
\* objects at any elevation.
C18_DragKeepsHeightAndHeading ==
    [][\A pt \in GestureInputs.points :
          DragMove(pt)
          => /\ SelectedEntity'.id = SelectedEntity.id
             /\ SelectedEntity'.position[3] = SelectedEntity.position[3]
             /\ SelectedEntity'.rotation = SelectedEntity.rotation
             /\ SelectedEntity'.mountType = SelectedEntity.mountType]_vars

\* C18's case: the ceiling robot, 1 m up and heading 90, is being dragged
\* with snap-to-grid on and is away from where its layout put it
C18_Witness ==
    /\ isDragging
    /\ interactionMode = "drag"
    /\ snapToGridEnabled
    /\ selectedRobotId = RobotIdOf(1)
    /\ \E r \in RobotsOf(deployedRobots) :
          /\ r.mountType = "ceiling"
          /\ r.position[3] = 1000
          /\ r.rotation = 90
          /\ XY(r.position) # <<0, 0>>

\* the step is a pointer-move at pt that handlePointerMove processes as a
\* turn: a gesture runs in 'rotate' mode on an entity in the store
RotateMove(pt) ==
    /\ isDragging
    /\ interactionMode = "rotate"
    /\ SelectedEntity # Null
    /\ PointerMove(pt)

\* C19: every pointer-move processed during a rotate gesture changes only
\* the heading of the selected entity: its x, y and height (and every
\* other field) are unchanged, and the heading written is a multiple of 15
\* in [0, 360).
C19_RotateChangesHeadingOnly ==
    [][\A pt \in GestureInputs.points :
          RotateMove(pt)
          => /\ SelectedEntity' =
                   [SelectedEntity EXCEPT !.rotation = SelectedEntity'.rotation]
             /\ SelectedEntity'.rotation % 15 = 0
             /\ HeadingInRange(SelectedEntity'.rotation)
             /\ UNCHANGED <<selectedRobotId, selectedObjectId,
                            interactionMode>>]_vars

\* C19's case: the grip of the elevated ceiling robot is held and the
\* pointer stands at 26.6 degrees from the robot: the heading is 30, the
\* robot where it was
C19_Witness ==
    /\ isDragging
    /\ interactionMode = "rotate"
    /\ selectedRobotId = RobotIdOf(1)
    /\ \E r \in RobotsOf(deployedRobots) :
          /\ r.mountType = "ceiling"
          /\ r.position = <<0, 0, 1000>>
          /\ r.rotation = 30

\* C20: with snap-to-grid enabled, after every pointer-move processed
\* during a drag gesture the dragged entity's x and y are each an integer
\* multiple of the grid pitch SNAP_SIZE.
C20_SnappedToGrid ==
    [][\A pt \in GestureInputs.points :
          (DragMove(pt) /\ snapToGridEnabled)
          => /\ SelectedEntity'.position[1] % SNAP_SIZE = 0
             /\ SelectedEntity'.position[2] % SNAP_SIZE = 0]_vars

\* C20's case: with snap-to-grid on, the box pressed 0.25 off its origin is
\* dragged to a pointer at (0.5, 1); origin plus travel is (0.25, 1), off
\* the grid, and the box stands at (0.5, 1)
C20_Witness ==
    /\ isDragging
    /\ interactionMode = "drag"
    /\ snapToGridEnabled
    /\ dragOffset = <<-250, 0>>
    /\ selectedObjectId = ObjectIdOf(1)
    /\ \E o \in RobotsOf(sceneObjects) : XY(o.position) = <<500, 1000>>

\* the robot r with its three parent fields null and every other field as
\* it is
Detached(r) ==
    [id |-> r.id, position |-> r.position, rotation |-> r.rotation,
     mountType |-> r.mountType, opacity |-> r.opacity,
     parentObjectId |-> Null, parentOffset |-> Null, trackPosition |-> Null]

\* C21: a step that is unbindRobot(robotId) leaves that robot with
\* parentObjectId, parentOffset and trackPosition null and its position and
\* rotation (and every other field) as they were, and leaves every other
\* robot and every object unchanged; and a step that is
\* updateObjectTransform on any object, the former parent among them, leaves
\* every robot that has no parent where it is.
C21_UnbindKeepsPlacement ==
    [][\A id \in ParentInputs.ids :
          /\ unbindRobot(id)
             => /\ Len(deployedRobots') = Len(deployedRobots)
                /\ \A i \in 1..Len(deployedRobots) :
                      deployedRobots'[i] =
                         IF deployedRobots[i].id = id
                         THEN Detached(deployedRobots[i])
                         ELSE deployedRobots[i]
                /\ UNCHANGED sceneObjects
          /\ \A pl \in ParentInputs.placements :
                updateObjectTransform(id, pl[1], pl[2])
                => \A i \in 1..Len(deployedRobots) :
                      deployedRobots[i].parentObjectId = Null
                      => deployedRobots'[i] = deployedRobots[i]]_vars

\* C21's case: the ceiling robot followed the box to heading 270 (the box at
\* heading 0), was unbound, and kept that placement while the box, still
\* carrying the other robot, was moved and turned to heading 90
C21_Witness ==
    /\ Len(deployedRobots) = 2
    /\ deployedRobots[1].parentObjectId = ObjectIdOf(2)
    /\ deployedRobots[2] = NewRobot(2, <<1000, 0, 1000>>, 270, "ceiling")
    /\ \E o \in RobotsOf(sceneObjects) :
          o.id = ObjectIdOf(2) /\ o.rotation = 90 /\ XY(o.position) = <<0, 1000>>

\* C22: a step that is removeObject(id) or clearObjects removes no robot:
\* deployedRobots keeps its length and order, every robot that was bound to
\* a removed object has parentObjectId, parentOffset and trackPosition null
\* and its position and rotation (and every other field) unchanged, and
\* every other robot is unchanged.
C22_RemovalDetaches ==
    [][/\ \A id \in ParentInputs.ids :
             removeObject(id)
             => /\ Len(deployedRobots') = Len(deployedRobots)
                /\ \A i \in 1..Len(deployedRobots) :
                      deployedRobots'[i] =
                         IF deployedRobots[i].parentObjectId = id
                         THEN Detached(deployedRobots[i])
                         ELSE deployedRobots[i]
       /\ clearObjects
          => /\ Len(deployedRobots') = Len(deployedRobots)
             /\ \A i \in 1..Len(deployedRobots) :
                   deployedRobots'[i] =
                      IF deployedRobots[i].parentObjectId # Null
                      THEN Detached(deployedRobots[i])
                      ELSE deployedRobots[i]]_vars

\* C22's case: the track is gone and the box is left; the robot that rode
\* the track at its far end stands, without a parent, on the height of the
\* carriage where the track left it, and the other robot is still on the box
C22_Witness ==
    /\ IdsOf(sceneObjects) = {ObjectIdOf(2)}
    /\ Len(deployedRobots) = 2
    /\ deployedRobots[1] = NewRobot(1, <<500, 0, 172>>, 0, "platform")
    /\ deployedRobots[2].parentObjectId = ObjectIdOf(2)

\* C23 as the specification states it: a bind of a robot to an object that
\* is not a linear_track leaves the robot's x, y, height, heading and
\* mountType unchanged, and stores an offset with which the cascade of
\* updateObjectTransform, called with the parent's current position and
\* rotation, gives the robot its x and y of before the bind (rounded to two
\* decimals) and its heading of before the bind.
C23_BindKeepsPlacement ==
    [][\A i \in 1..Len(deployedRobots), o \in RobotsOf(sceneObjects) :
          LET r == deployedRobots[i]
              bound == deployedRobots'[i]
              again == CascadeRobot(bound, o.id, o.position, o.rotation)
          IN (~IsTrack(o) /\ bindRobotToObject(r.id, o.id))
             => /\ bound.position = r.position
                /\ bound.rotation = r.rotation
                /\ bound.mountType = r.mountType
                /\ bound.parentObjectId = o.id
                /\ bound.parentOffset # Null
                /\ again.position =
                      <<Round2(r.position[1]), Round2(r.position[2]),
                        r.position[3]>>
                /\ again.rotation = r.rotation]_vars

\* C24 as the specification states it: a bind of a robot to a linear_track
\* sets trackPosition to 0.5, parentOffset to (0, 0, 0), the robot's x and y
\* to the track's (to the store's two decimals), its heading to the track's
\* heading, its height to the track's height plus the track's 'height'
\* dimension plus the plate thickness, and its mountType to 'platform',
\* whatever the robot's placement, binding and mount type were.
C24_BindToTrack ==
    [][\A i \in 1..Len(deployedRobots), o \in RobotsOf(sceneObjects) :
          LET r == deployedRobots[i]
              bound == deployedRobots'[i]
          IN (IsTrack(o) /\ bindRobotToObject(r.id, o.id))
             => /\ bound.parentObjectId = o.id
                /\ bound.trackPosition = <<50>>
                /\ bound.parentOffset = <<0, 0, 0>>
                /\ XY(bound.position) =
                      <<Round2(o.position[1]), Round2(o.position[2])>>
                /\ bound.rotation = o.rotation
                /\ bound.position[3] =
                      o.position[3] + o.dimensions.height + CarriagePlate
                /\ bound.mountType = "platform"]_vars

\* C25: a step that is setRobotTrackPosition(robotId, f) on a robot bound to
\* a linear_track changes that robot only (every other robot, every object
\* and the rest of the store are as they were); it sets parentOffset.dx to
\* (f - 0.5) times the track's length at the call, keeps parentOffset.dy,
\* parentOffset.dRot and the robot's height, and writes the x and y that the
\* track's position and rotation at the call give that offset (to the
\* store's two decimals) and a heading equal, modulo 360, to the track's
\* rotation plus dRot: the robot stands on the track's current axis.
C25_TrackPositionFromCurrentTrack ==
    [][\A i \in 1..Len(deployedRobots), o \in RobotsOf(sceneObjects),
          f \in ParentInputs.percents :
          LET r == deployedRobots[i]
              moved == deployedRobots'[i]
              dx == ((f - 50) * o.dimensions.length) \div 100
              dy == r.parentOffset[2]
              dRot == r.parentOffset[3]
              h == o.rotation
          IN (IsTrack(o) /\ r.parentObjectId = o.id
                 /\ setRobotTrackPosition(r.id, f))
             => /\ Len(deployedRobots') = Len(deployedRobots)
                /\ \A j \in 1..Len(deployedRobots) :
                      j # i => deployedRobots'[j] = deployedRobots[j]
                /\ UNCHANGED <<sceneObjects, nextRobotId, nextObjectId,
                               selectedRobotId, selectedObjectId,
                               interactionMode, floorClickCoords,
                               snapToGridEnabled>>
                /\ moved.trackPosition = <<f>>
                /\ moved.parentOffset = <<dx, dy, dRot>>
                /\ moved.position =
                      <<Round2(o.position[1] + dx * CosDeg(h) - dy * SinDeg(h)),
                        Round2(o.position[2] + dx * SinDeg(h) + dy * CosDeg(h)),
                        r.position[3]>>
                /\ (moved.rotation - (h + dRot)) % 360 = 0
                /\ moved = [r EXCEPT !.trackPosition = moved.trackPosition,
                                     !.parentOffset = moved.parentOffset,
                                     !.position = moved.position,
                                     !.rotation = moved.rotation]]_vars

\* C25's case: the track, made 2 m long, was moved to (0, 1) and turned to
\* heading 90; the first robot was then sent to the track's start and stands
\* at (0, 0) on the turned axis, while the second robot rides the middle
C25_Witness ==
    /\ Len(deployedRobots) = 2
    /\ \E o \in RobotsOf(sceneObjects) :
          /\ IsTrack(o)
          /\ o.dimensions.length = 2000
          /\ o.position = <<0, 1000, 0>>
          /\ o.rotation = 90
          /\ deployedRobots[1].parentObjectId = o.id
          /\ deployedRobots[2].parentObjectId = o.id
    /\ deployedRobots[1].trackPosition = <<0>>
    /\ deployedRobots[1].parentOffset = <<-1000, 0, 0>>
    /\ deployedRobots[1].position = <<0, 0, 172>>
    /\ deployedRobots[1].rotation = 90
    /\ deployedRobots[2].trackPosition = <<50>>
    /\ deployedRobots[2].position = <<0, 1000, 172>>

\* C26: in every reachable state, a robot's trackPosition is non-null only
\* if its parentObjectId is the id of an object of the store whose shape is
\* 'linear_track'.
C26_TrackPositionOnlyOnTrack ==
    \A r \in RobotsOf(deployedRobots) :
        r.trackPosition # Null
        => \E o \in RobotsOf(sceneObjects) :
              o.id = r.parentObjectId /\ IsTrack(o)

\* C26's case: a robot that rode the track (it stands on the carriage's
\* height) is now bound to the box and has no track position, while the
\* other robot rides the track
C26_Witness ==
    /\ Len(deployedRobots) = 2
    /\ deployedRobots[1].parentObjectId = ObjectIdOf(2)
    /\ deployedRobots[1].position[3] = 172
    /\ deployedRobots[1].trackPosition = Null
    /\ deployedRobots[2].parentObjectId = ObjectIdOf(1)
    /\ deployedRobots[2].trackPosition = <<100>>
    /\ \E o \in RobotsOf(sceneObjects) : o.id = ObjectIdOf(2) /\ ~IsTrack(o)

\* C27: in every state that the store's calls reach (bind, unbind, remove,
\* clear, duplicate and track position among them), a robot whose
\* parentObjectId is non-null has a non-null parentOffset.
C27_ParentHasOffset ==
    \A r \in RobotsOf(deployedRobots) :
        r.parentObjectId # Null => r.parentOffset # Null

\* C27's case: the clone of a robot that rode a track stands, without parent
\* and offset, 1 m off the carriage it was copied on, while the source was
\* sent on along the track and holds the offset of its new place
C27_Witness ==
    /\ Len(deployedRobots) = 2
    /\ deployedRobots[1].parentObjectId # Null
    /\ deployedRobots[1].parentOffset = <<1000, 0, 0>>
    /\ deployedRobots[2].id = RobotIdOf(2)
    /\ deployedRobots[2].position = <<1000, 1000, 172>>
    /\ deployedRobots[2].parentObjectId = Null
    /\ deployedRobots[2].parentOffset = Null

\* the step is a ground click at pt: on the pick plane, or on the floor
\* under it when the plane is not mounted
GroundClick(pt) == FloorClickPlane_handleClick(pt) \/ handleFloorClick

\* v is the multiple of 0.1 m nearest to the clicked coordinate c
PickRounded(v, c) == v % 100 = 0 /\ v - c <= 50 /\ c - v <= 50

C29_FloorClickDeselects ==
    [][/\ (interactionMode = "orbit" /\ handleFloorClick)
          => selectedRobotId' = Null /\ selectedObjectId' = Null
       /\ \A pt \in PressInputs.picks :
             (interactionMode # "orbit" /\ GroundClick(pt))
             => UNCHANGED <<selectedRobotId, selectedObjectId>>
       /\ \A pt \in PressInputs.points :
             (PointerMove(pt) \/ PointerUp)
             => UNCHANGED <<selectedRobotId, selectedObjectId>>]_vars

\* C29's case: the robot stands where a drag left it, so it was selected
\* through a move and a release, and a click on the floor in 'orbit' mode
\* has left nothing selected
C29_Witness ==
    /\ interactionMode = "orbit"
    /\ ~isDragging
    /\ selectedRobotId = Null
    /\ selectedObjectId = Null
    /\ \E r \in RobotsOf(deployedRobots) : XY(r.position) = <<1000, 0>>

\* C30: a pointer-move or a pointer-up that reaches the drag surface while
\* no gesture is active (isDragging is false: no press was accepted since
\* the last release) changes nothing: no entity, no selection, no
\* interactionMode, nor any other key of the store or ref of the surface.
C30_IdleSurfaceIgnoresPointer ==
    [][~isDragging
       => /\ PointerUpMode = interactionMode
          /\ PointerMoveMode = interactionMode
          /\ \A pt \in PressInputs.points :
                (PointerMove(pt) \/ PointerUp)
                => UNCHANGED <<storeVars, planeVars>>]_vars

\* C30's case: no gesture runs although the store is in 'drag' mode with the
\* box selected (the Drag button of its row), and the surface still holds
\* the offset of an earlier gesture: a move taken now would shift the box
C30_Witness ==
    /\ ~isDragging
    /\ interactionMode = "drag"
    /\ selectedObjectId = ObjectIdOf(1)
    /\ dragOffset # <<0, 0>>
    /\ HasId(sceneObjects, ObjectIdOf(1))

\* the placements the round trip is computed on, besides those of the
\* entities in the store
RoundTripPlacements ==
    {<<x, y, z>> : x \in {0, 250, MaxCoord}, y \in {0, 4, MaxCoord},
                   z \in {0, 500, 1260}}

\* C31: mapping a placement (x, y, z) to the render frame as (x, z, y) and
\* a point of the render frame back to the floor as (point.x, point.z)
\* returns (x, y) exactly.  It holds of the listed placements and of every
\* entity of every reachable state, and a press on the ground point an
\* entity's origin is rendered over records the drag offset (0, 0).
C31_FrameRoundTrip ==
    /\ \A p \in RoundTripPlacements : toFloor(threePos(p)) = <<p[1], p[2]>>
    /\ \A e \in RobotsOf(deployedRobots) \cup RobotsOf(sceneObjects) :
          toFloor(threePos(e.position)) = <<e.position[1], e.position[2]>>
    /\ \A r \in RobotsOf(deployedRobots) :
          DragPlane_handlePointerDown("drag", r.id, Null,
              toFloor(threePos(r.position)))[2] = <<0, 0>>
    /\ \A o \in RobotsOf(sceneObjects) :
          DragPlane_handlePointerDown("drag", Null, o.id,
              toFloor(threePos(o.position)))[2] = <<0, 0>>

\* C31's case: a gesture runs on the ceiling robot, whose height differs
\* from its y, after a press on the ground point under its origin
C31_Witness ==
    /\ isDragging
    /\ interactionMode = "drag"
    /\ selectedRobotId = RobotIdOf(1)
    /\ HasId(deployedRobots, RobotIdOf(1))
    /\ LET r == deployedRobots[FindIndex(deployedRobots, RobotIdOf(1))] IN
       /\ r.position[3] # r.position[2]
       /\ dragOffset = <<0, 0>>

\* the coordinates and grid pitches snapToGrid is computed on: both signs,
\* multiples of a pitch, half pitches (where Math.round goes up) and their
\* neighbours
SnapCoords ==
    {-MaxCoord, -751, -750, -749, -250, -125, -1, 0, 1, 4, 125, 249, 250,
     251, 500, 750, MaxCoord}

SnapGrids == {1, 3, 100, 250, SNAP_SIZE, MaxCoord}

Snapped(x, y, g) == snapToGrid(x, y, g)

SnappedTwice(x, y, g) ==
    snapToGrid(snapToGrid(x, y, g)[1], snapToGrid(x, y, g)[2], g)

SnapIdempotentOnGrids ==
    \A x \in SnapCoords, y \in SnapCoords, g \in SnapGrids :
       SnappedTwice(x, y, g) = Snapped(x, y, g)

\* C32: snapToGrid is idempotent: for every x, y and every pitch g > 0,
\* snapToGrid of the result of snapToGrid(x, y, g), with the same g, is that
\* result.  It holds of the listed coordinates and pitches and, in every
\* reachable state, of every point a pointer-move would hand to snapToGrid
\* (the ground point plus the recorded offset) at every listed pitch.
C32_SnapIdempotent ==
    /\ SnapIdempotentOnGrids
    /\ \A pt \in GestureInputs.points, g \in SnapGrids :
          SnappedTwice(pt[1] + dragOffset[1], pt[2] + dragOffset[2], g)
              = Snapped(pt[1] + dragOffset[1], pt[2] + dragOffset[2], g)

\* C32's case: with snap-to-grid on, the robot pressed 0.25 off its origin
\* has been dragged; the point handed to snapToGrid was off the grid and
\* the robot stands on it, so the next move at the same pointer snaps a
\* point whose snap the store already holds
C32_Witness ==
    /\ isDragging
    /\ interactionMode = "drag"
    /\ snapToGridEnabled
    /\ dragOffset[1] % SNAP_SIZE # 0
    /\ selectedRobotId = RobotIdOf(1)
    /\ \E r \in RobotsOf(deployedRobots), pt \in GestureInputs.points :
          /\ r.id = RobotIdOf(1)
          /\ (pt[1] + dragOffset[1]) % SNAP_SIZE # 0
          /\ <<r.position[1], r.position[2]>>
                = Snapped(pt[1] + dragOffset[1], pt[2] + dragOffset[2],
                          SNAP_SIZE)
          /\ <<r.position[1], r.position[2]>> # <<0, 0>>

\* the selected entity is in the store
SelectionExists ==
    resolveSelected(selectedRobotId, selectedObjectId).index # 0

ModeHasSelection ==
    interactionMode \in {"drag", "rotate"} => SelectionExists

\* the step is one of the operations C33 names
RemovalOrPointerStep ==
    \/ \E id \in Inputs.ids :
          \/ RemoveRobot(id)
          \/ RemoveObject(id)
          \/ handleDragRobot(id)
          \/ handleDragObject(id)
    \/ ClearObjects
    \/ PointerEvents(Inputs)

\* C33 as the specification states it: whenever interactionMode is 'drag'
\* or 'rotate', an entity of the store is selected, and no pointer event,
\* removeRobot, removeObject, clearObjects or sidebar drag button ends that.
C33_ModeHasSelection ==
    [][(ModeHasSelection /\ RemovalOrPointerStep) => ModeHasSelection']_vars

\* C34 as the specification implies it: for every robot bound to a
\* linear_track, parentOffset.dx is (trackPosition - 0.5) times the track's
\* current length, in every reachable state, also after
\* updateObjectDimensions has changed the length.
C34_OffsetFollowsLength ==
    \A r \in RobotsOf(deployedRobots), o \in RobotsOf(sceneObjects) :
       (r.parentObjectId = o.id /\ IsTrack(o) /\ r.trackPosition # Null)
       => 100 * r.parentOffset[1]
             = (r.trackPosition[1] - 50) * o.dimensions.length

\* the entity is neither the one the running gesture grabbed nor a robot
\* bound to it
OutsideGesture(e) ==
    /\ e.id # grabbedId
    /\ "parentObjectId" \in DOMAIN e => e.parentObjectId # grabbedId

\* C35 as the specification implies it: while a gesture is active, a
\* pointer-move changes only the entity that was selected when the gesture
\* started and the robots bound to it; whatever the selection has become
\* since, every other entity stays as it is.
C35_GestureMovesGrabbedOnly ==
    [][\A pt \in Inputs.points :
          (isDragging /\ grabbedId # Null /\ PointerMove(pt))
          => /\ \A i \in 1..Len(deployedRobots) :
                   OutsideGesture(deployedRobots[i])
                   => deployedRobots'[i] = deployedRobots[i]
             /\ \A i \in 1..Len(sceneObjects) :
                   OutsideGesture(sceneObjects[i])
                   => sceneObjects'[i] = sceneObjects[i]]_vars

\* C36: in every state reached through pointer events and the remove,
\* clear, duplicate and restore operations, a non-null selectedRobotId is
\* the id of a robot in deployedRobots and a non-null selectedObjectId is
\* the id of an object in sceneObjects.
C36_SelectionInStore ==
    /\ selectedRobotId # Null => selectedRobotId \in IdsOf(deployedRobots)
    /\ selectedObjectId # Null => selectedObjectId \in IdsOf(sceneObjects)

\* C36's case: the duplicate r-2 was selected and pressed; it has been
\* removed during the gesture, the selection went with it and the source
\* r-1 is still there
C36_Witness ==
    /\ isDragging
    /\ grabbedId = RobotIdOf(2)
    /\ selectedRobotId = Null
    /\ IdsOf(deployedRobots) = {RobotIdOf(1)}
    /\ nextRobotId = 3

\* C37: in every state reached by the store's operations other than
\* restoreScene, every non-null parentObjectId of a robot is the id of an
\* object in sceneObjects: no robot stays bound to a removed object, and an
\* object made later under a reused id finds no robot bound to it.  (The
\* one layout SpecStore restores is the empty one, which gives the initial
\* state again.)
C37_ParentInStore ==
    \A r \in RobotsOf(deployedRobots) :
       r.parentObjectId # Null => r.parentObjectId \in IdsOf(sceneObjects)

\* C37's case: objects were cleared and o-1 was made again (the counter
\* stands at 2 with o-1 alone, while r-2 is bound to it); r-1 stands at the
\* carriage height of a track it was bound to and is bound to nothing
C37_Witness ==
    /\ IdsOf(sceneObjects) = {ObjectIdOf(1)}
    /\ nextObjectId = 2
    /\ Len(deployedRobots) = 2
    /\ \E r \in RobotsOf(deployedRobots) :
          /\ r.id = RobotIdOf(1)
          /\ r.parentObjectId = Null
          /\ r.mountType = "platform"
          /\ r.position[3] = Track[2].height + CarriagePlate
    /\ \E r \in RobotsOf(deployedRobots) :
          /\ r.id = RobotIdOf(2)
          /\ r.parentObjectId = ObjectIdOf(1)

\* the numeric suffix of an id
IdNumber(id) == id[2]

UniqueIds(seq) ==
    \A i, j \in 1..Len(seq) : seq[i].id = seq[j].id => i = j

\* C38: after any sequence of deploys (batches numbered from the current
\* nextRobotId / nextObjectId), duplicates, removals and clears, no two
\* robots share an id, no two objects share an id, and nextRobotId
\* (nextObjectId) is greater than the number of every robot (object) id.
C38_IdsUnique ==
    /\ UniqueIds(deployedRobots)
    /\ UniqueIds(sceneObjects)
    /\ \A id \in IdsOf(deployedRobots) : IdNumber(id) < nextRobotId
    /\ \A id \in IdsOf(sceneObjects) : IdNumber(id) < nextObjectId

\* C38's case: of a batch r-1, r-2 the first was removed and the second
\* duplicated: r-2 and r-3 remain and the counter stands at 4; the objects
\* are a batch of two, o-1 and o-2
C38_Witness ==
    /\ IdsOf(deployedRobots) = {RobotIdOf(2), RobotIdOf(3)}
    /\ nextRobotId = 4
    /\ \E r \in RobotsOf(deployedRobots) :
          r.id = RobotIdOf(3) /\ r.position = <<1500, 1000, 0>>
    /\ IdsOf(sceneObjects) = {ObjectIdOf(1), ObjectIdOf(2)}
    /\ nextObjectId = 3
    /\ \E o \in RobotsOf(sceneObjects) :
          o.id = ObjectIdOf(2) /\ o.position = <<1000, 0, 0>>

\* C39: duplicateRobot(robotId) on an existing robot adds exactly one
\* robot, with an id no robot bore, with parentObjectId, parentOffset and
\* trackPosition null also when the source is bound, at the source's
\* (x + 1, y + 1) and height; the clone becomes the only selected entity,
\* and the robots there were (the source and its binding among them) and
\* every object stay as they are.
C39_DuplicateRobot ==
    [][\A id \in StoreInputs.ids :
          (duplicateRobot(id) /\ HasId(deployedRobots, id))
          => LET source == deployedRobots[FindIndex(deployedRobots, id)]
                 n == Len(deployedRobots)
                 clone == deployedRobots'[n + 1]
             IN /\ Len(deployedRobots') = n + 1
                /\ SubSeq(deployedRobots', 1, n) = deployedRobots
                /\ clone.id \notin IdsOf(deployedRobots)
                /\ clone = Detached(clone)
                /\ clone.position = <<source.position[1] + 1000,
                                      source.position[2] + 1000,
                                      source.position[3]>>
                /\ selectedRobotId' = clone.id
                /\ selectedObjectId' = Null
                /\ sceneObjects' = sceneObjects]_vars

\* C39's case: r-1 rides track o-1 and its duplicate r-2 stands 1 m off in
\* x and y at the carriage height, bound to nothing, and is selected
C39_Witness ==
    /\ selectedRobotId = RobotIdOf(2)
    /\ selectedObjectId = Null
    /\ Len(deployedRobots) = 2
    /\ deployedRobots[1].id = RobotIdOf(1)
    /\ deployedRobots[1].parentObjectId = ObjectIdOf(1)
    /\ deployedRobots[1].trackPosition # Null
    /\ deployedRobots[2].id = RobotIdOf(2)
    /\ deployedRobots[2].position
          = <<1000, 1000, Track[2].height + CarriagePlate>>
    /\ deployedRobots[2] = Detached(deployedRobots[2])

====
